---- MODULE Spec2Model ----
(***************************************************************************)
(* Model of the histogram crate of rustcommon: the bucket layout, the      *)
(* exclusive (standard) and shared (atomic) counter stores, the generic    *)
(* percentile walk, the sparse (compact) form and the sliding windows.     *)
(*                                                                         *)
(* Machine words: u64 values and u64 counters are modelled as WordBits-bit *)
(* unsigned words (arithmetic mod 2^WordBits), so that the top of the      *)
(* value range, the full-range layout (n = 64 in the program, n = WordBits *)
(* here) and counter wraparound are all reachable.  The parameters a, b, n *)
(* keep their real type u8 (0..255).                                       *)
(***************************************************************************)
EXTENDS Integers, Sequences, FiniteSets

(***************************************************************************)
(* Bounds of the model                                                     *)
(***************************************************************************)
\* width of a u64 word in the model
WordBits == 3
\* number of successful add/increment calls in one behaviour of a store
MaxOps == 2
\* writer threads and increments per thread of the shared store
NThreads == 2
MIncr == 2
\* how many whole ticks past the next tick boundary a timestamp handed to
\* add_at may lie
MaxAhead == 2
\* number of add_at/increment_at calls in one behaviour of a sliding window
MaxAdds == 4
\* width of the u64 that holds the nanoseconds of an instant or a duration
NanosBits == 16
\* number of anchoring calls made on one window builder
MaxAnchors == 2

\* largest value of the type u8 (the parameters a, b, n)
U8Max == 255

\* 2^WordBits - 1, the model's u64::MAX
U64Max == 2^WordBits - 1
U64 == 0..U64Max
WrapU64(x) == x % (2^WordBits)

\* the limit on n: `if n > 64`, 64 being the width of u64
MaxPower == WordBits

NoHist == [tag |-> "none"]

(***************************************************************************)
(* config::Config (config.rs is not among the sources: modelled from       *)
(* sections 3 and 4.1 of the specification)                                *)
(***************************************************************************)
ConfigNew(a, b, n) ==
    IF n > MaxPower \/ a + b >= n
      THEN [ok |-> FALSE, err |-> "InvalidConfig"]
      ELSE [ok |-> TRUE, config |-> [a |-> a, b |-> b, n |-> n]]

linear_bins(c) == 2^(c.b)
threshold(c) == 2^(c.a + c.b)
log_bins(c) == (c.n - c.a - c.b) * 2^(c.b)
total_bins(c) == linear_bins(c) + log_bins(c)

\* position of the highest set bit of a non-zero word
HighBit(v) == CHOOSE e \in 0..(WordBits - 1) : 2^e <= v /\ v < 2^(e + 1)

\* a mapping that ignores the subdivision of an octave
value_to_index_OctaveOnly(c, value) ==
    IF c.n < WordBits /\ value >= 2^(c.n)
      THEN [ok |-> FALSE, err |-> "ValueOutOfRange"]
      ELSE IF value < threshold(c)
        THEN [ok |-> TRUE, index |-> value \div 2^(c.a)]
        ELSE [ok |-> TRUE,
              index |-> linear_bins(c) + (HighBit(value) - (c.a + c.b)) * 2^(c.b)]

value_to_index(c, value) ==
    IF c.n < WordBits /\ value >= 2^(c.n)
      THEN [ok |-> FALSE, err |-> "ValueOutOfRange"]
      ELSE IF value < threshold(c)
        THEN [ok |-> TRUE, index |-> value \div 2^(c.a)]
        ELSE LET e == HighBit(value)
                 offset == (value - 2^e) \div 2^(e - c.b)
             IN [ok |-> TRUE,
                 index |-> linear_bins(c) + (e - (c.a + c.b)) * 2^(c.b) + offset]

index_to_lower_bound(c, index) ==
    IF index < linear_bins(c)
      THEN index * 2^(c.a)
      ELSE LET g == index - linear_bins(c)
               e == c.a + c.b + (g \div 2^(c.b))
               offset == g % 2^(c.b)
           IN 2^e + offset * 2^(e - c.b)

index_to_upper_bound(c, index) ==
    IF index = total_bins(c) - 1
      THEN 2^(c.n) - 1
      ELSE IF index < linear_bins(c)
        THEN index * 2^(c.a) + (2^(c.a) - 1)
        ELSE LET g == index - linear_bins(c)
                 e == c.a + c.b + (g \div 2^(c.b))
                 offset == g % 2^(c.b)
             IN 2^e + offset * 2^(e - c.b) + (2^(e - c.b) - 1)

(***************************************************************************)
(* State                                                                   *)
(***************************************************************************)
VARIABLES
    kind,       \* which store was constructed: "none", "standard", "atomic"
    hist,       \* the store: NoHist or [config, buckets]; buckets[i + 1] is counter i
    builder,    \* the Builder value: NoHist or [a, b, n]
    last,       \* the last call and what it returned
    recorded,   \* number of add/increment calls that returned Ok so far
    done,       \* done[t]: successful increments thread t has performed
    written,    \* written[v]: successful increments of value v by the threads
    window,     \* the sliding window: NoWindow or [kind, common, tick_at, snapshots, live]
    callers,    \* callers[c]: where caller c of the shared window is in add_at
    reader,     \* the last call on the sliding window and what it returned
    history     \* what was recorded in the sliding window, and the rotations done

vars == <<kind, hist, builder, last, recorded, done, written,
          window, callers, reader, history>>

\* the state of the counter stores, the state of the sliding window
storeVars == <<kind, hist, builder, last, recorded, done, written>>
windowVars == <<window, callers, reader, history>>

Threads == 1..NThreads

(***************************************************************************)
(* Counter stores                                                          *)
(***************************************************************************)
\* Histogram::from_config: total_bins counters, all zero
from_config(config) ==
    [config |-> config, buckets |-> [i \in 1..total_bins(config) |-> 0]]

\* _Histograms::get_count
get_count(h, index) == h.buckets[index + 1]

\* get_bucket with the upper bound taken from index_to_lower_bound
get_bucket_UpperIsLower(h, index) ==
    [count |-> get_count(h, index),
     lower |-> index_to_lower_bound(h.config, index),
     upper |-> index_to_lower_bound(h.config, index)]

\* get_bucket with the two bounds exchanged
get_bucket_BoundsSwapped(h, index) ==
    [count |-> get_count(h, index),
     lower |-> index_to_upper_bound(h.config, index),
     upper |-> index_to_lower_bound(h.config, index)]

\* get_bucket with the bounds of the following bucket
get_bucket_NextIndex(h, index) ==
    [count |-> get_count(h, index),
     lower |-> index_to_lower_bound(h.config, index + 1),
     upper |-> index_to_upper_bound(h.config, index + 1)]

\* _Histograms::get_bucket
get_bucket(h, index) ==
    [count |-> get_count(h, index),
     lower |-> index_to_lower_bound(h.config, index),
     upper |-> index_to_upper_bound(h.config, index)]

\* _Histograms::total_count: the counters summed as u128 (no wraparound)
RECURSIVE SumTo(_, _)
SumTo(buckets, k) == IF k = 0 THEN 0 ELSE buckets[k] + SumTo(buckets, k - 1)

total_count(h) == SumTo(h.buckets, Len(h.buckets))

\* add that counts a rejected value in the last bucket
HistogramAdd_ClampOutOfRange(h, value, count) ==
    LET r == value_to_index(h.config, value)
    IN IF ~r.ok
         THEN [res |-> r.err,
               hist |-> [h EXCEPT !.buckets[Len(h.buckets)] = WrapU64(@ + count)]]
         ELSE [res |-> "Ok",
               hist |-> [h EXCEPT !.buckets[r.index + 1] = WrapU64(@ + count)]]

\* add that assigns the count instead of adding it
HistogramAdd_Assign(h, value, count) ==
    LET r == value_to_index(h.config, value)
    IN IF ~r.ok
         THEN [res |-> r.err, hist |-> h]
         ELSE [res |-> "Ok", hist |-> [h EXCEPT !.buckets[r.index + 1] = count]]

\* Histogram::add of the exclusive store
HistogramAdd(h, value, count) ==
    LET r == value_to_index(h.config, value)
    IN IF ~r.ok
         THEN [res |-> r.err, hist |-> h]
         ELSE [res |-> "Ok",
               hist |-> [h EXCEPT !.buckets[r.index + 1] = WrapU64(@ + count)]]

\* add of the shared store with store() in place of fetch_add()
AtomicAdd_Store(h, value, count) ==
    LET r == value_to_index(h.config, value)
    IN IF ~r.ok
         THEN [res |-> r.err, hist |-> h]
         ELSE [res |-> "Ok", hist |-> [h EXCEPT !.buckets[r.index + 1] = count]]

\* Histogram::add of the shared store: one fetch_add on the counter
AtomicAdd(h, value, count) ==
    LET r == value_to_index(h.config, value)
    IN IF ~r.ok
         THEN [res |-> r.err, hist |-> h]
         ELSE [res |-> "Ok",
               hist |-> [h EXCEPT !.buckets[r.index + 1] = WrapU64(@ + count)]]

StoreAdd(k, h, value, count) ==
    IF k = "atomic" THEN AtomicAdd(h, value, count) ELSE HistogramAdd(h, value, count)

(***************************************************************************)
(* Builder::new and Builder::build                                         *)
(***************************************************************************)
\* `a + b` on u8: past 255 the sum wraps in a release build and panics in a
\* debug build
U8AddOutcomes(a, b) ==
    IF a + b <= U8Max
      THEN {[panic |-> FALSE, sum |-> a + b]}
      ELSE {[panic |-> FALSE, sum |-> (a + b) % (U8Max + 1)], [panic |-> TRUE, sum |-> 0]}

\* Builder::new that accepts a + b = n
BuilderNewOutcomes_SumMayEqualN(a, b, n) ==
    IF n > MaxPower
      THEN {[tag |-> "Err", err |-> "MaxPowerTooHigh"]}
      ELSE {IF s.panic THEN [tag |-> "Panic"]
            ELSE IF s.sum > n THEN [tag |-> "Err", err |-> "MaxPowerTooLow"]
            ELSE [tag |-> "Ok", a |-> a, b |-> b, n |-> n] : s \in U8AddOutcomes(a, b)}

\* the outcomes of Builder::new(a, b, n)
BuilderNewOutcomes(a, b, n) ==
    IF n > MaxPower
      THEN {[tag |-> "Err", err |-> "MaxPowerTooHigh"]}
      ELSE {IF s.panic THEN [tag |-> "Panic"]
            ELSE IF s.sum >= n THEN [tag |-> "Err", err |-> "MaxPowerTooLow"]
            ELSE [tag |-> "Ok", a |-> a, b |-> b, n |-> n] : s \in U8AddOutcomes(a, b)}

\* Histogram::new / Builder::build: Config::new(a, b, n)? then from_config
NewOutcome(a, b, n) ==
    LET c == ConfigNew(a, b, n)
    IN IF c.ok THEN [tag |-> "Ok", hist |-> from_config(c.config)]
       ELSE [tag |-> "Err", err |-> c.err, hist |-> NoHist]

(***************************************************************************)
(* Histograms::percentiles and Histograms::percentile                      *)
(*                                                                         *)
(* A percentile is a whole number of percent p.  The requested values are  *)
(* drawn from Percents, whose members divided by 100.0 are exact in f64    *)
(* (0, 0.25, 0.5, 0.75, 1).  The total and the product are f64 values: an  *)
(* f64 keeps 53 significant bits of the 64 of a counter, the model keeps   *)
(* F64Bits of WordBits, and rounds as the hardware does.                   *)
(***************************************************************************)
Percents == {0, 25, 50, 75, 100}

\* significant bits of an f64, in the proportion 53 : 64 to the word
F64Bits == (53 * WordBits) \div 64

\* an integer that needs no rounding
AsF64_Exact(x) == x

\* a non-negative integer rounded to F64Bits significant bits, to the nearest
\* representable value, ties to the even significand (`as f64`, and the
\* rounding of an f64 product)
AsF64(x) ==
    IF x < 2^F64Bits THEN x
    ELSE LET e == CHOOSE k \in F64Bits..(8 * WordBits) : 2^k <= x /\ x < 2^(k + 1)
             ulp == 2^(e - F64Bits + 1)
             lo == (x \div ulp) * ulp
             r == x - lo
         IN IF 2 * r < ulp THEN lo
            ELSE IF 2 * r > ulp THEN lo + ulp
            ELSE IF (lo \div ulp) % 2 = 0 THEN lo ELSE lo + ulp

\* percentiles.to_vec() without the sort
SortAsc_Unsorted(ps) == ps

\* percentiles.sort_by(partial_cmp): ascending
RECURSIVE Insert(_, _)
Insert(sorted, x) ==
    IF sorted = <<>> THEN <<x>>
    ELSE IF x < Head(sorted) THEN <<x>> \o sorted
    ELSE <<Head(sorted)>> \o Insert(Tail(sorted), x)

RECURSIVE SortAsc(_)
SortAsc(ps) == IF ps = <<>> THEN <<>> ELSE Insert(SortAsc(Tail(ps)), Head(ps))

\* needed without the .ceil(): the cast truncates
Needed_Truncated(percentile, total) == (percentile * total) \div 100

\* let needed = (percentile / 100.0 * total as f64).ceil() as u128
\* percentile / 100.0 is a whole number of quarters; the product is computed
\* in quarters (rounding to significant bits commutes with the division by 4)
Needed(percentile, total) ==
    (AsF64((percentile \div 25) * AsF64(total)) + 3) \div 4

\* the state of the walk at the start of `Histograms::percentiles`' loops
WalkInit == [have |-> 0, percentile_idx |-> 0, current_idx |-> 0, max_idx |-> 0,
             result |-> <<>>]

\* result.push((percentile, self.get_bucket(current_idx))); percentile_idx += 1
Push(h, w, percentile) ==
    [w EXCEPT !.result = Append(@, [percentile |-> percentile,
                                     bucket |-> get_bucket(h, w.current_idx)]),
              !.percentile_idx = @ + 1]

\* a fill that answers with the first bucket whatever was read
Fill_FirstBucket(h, ps, w) ==
    [tag |-> "Ok",
     value |-> w.result \o
               [k \in 1..(Len(ps) - Len(w.result)) |->
                  [percentile |-> ps[Len(w.result) + k],
                   bucket |-> get_bucket(h, 0)]]]

\* the fill after `break 'outer`: the remaining percentiles get bucket max_idx
Fill(h, ps, w) ==
    [tag |-> "Ok",
     value |-> w.result \o
               [k \in 1..(Len(ps) - Len(w.result)) |->
                  [percentile |-> ps[Len(w.result) + k],
                   bucket |-> get_bucket(h, w.max_idx)]]]

RECURSIVE OuterLoop(_, _, _, _)
RECURSIVE InnerLoop(_, _, _, _, _)
\* 'outer: one requested percentile per iteration
OuterLoop(h, ps, total, w) ==
    IF w.percentile_idx >= Len(ps)
      THEN [tag |-> "Ok", value |-> w.result]
      ELSE LET percentile == ps[w.percentile_idx + 1]
               needed == Needed(percentile, total)
           IN IF w.have >= needed
                THEN IF w.current_idx >= Len(h.buckets)
                       THEN [tag |-> "Panic"]   \* buckets[index] out of bounds
                       ELSE OuterLoop(h, ps, total, Push(h, w, percentile))
                ELSE InnerLoop(h, ps, total, needed, w)

\* 'inner: one bucket per iteration
InnerLoop(h, ps, total, needed, w) ==
    IF w.current_idx >= total_bins(h.config)
      THEN Fill(h, ps, w)
      ELSE LET current_count == get_count(h, w.current_idx)
               w1 == [w EXCEPT !.max_idx = IF current_count > 0 THEN w.current_idx ELSE @,
                               !.have = @ + current_count]
           IN IF w1.have >= needed
                THEN OuterLoop(h, ps, total,
                               [Push(h, w1, ps[w.percentile_idx + 1])
                                  EXCEPT !.current_idx = @ + 1])
                ELSE InnerLoop(h, ps, total, needed, [w1 EXCEPT !.current_idx = @ + 1])

\* percentiles without the check for an empty histogram
Percentiles_NoEmptyCheck(h, percentiles) ==
    OuterLoop(h, SortAsc(percentiles), total_count(h), WalkInit)

\* Histograms::percentiles
Percentiles(h, percentiles) ==
    LET total == total_count(h)
    IN IF total = 0
         THEN [tag |-> "Err", err |-> "Empty"]
         ELSE OuterLoop(h, SortAsc(percentiles), total, WalkInit)

\* Histograms::percentile: percentiles(&[p]).map(|v| v.first().unwrap().1)
Percentile(h, percentile) ==
    LET r == Percentiles(h, <<percentile>>)
    IN IF r.tag = "Ok" THEN [tag |-> "Ok", value |-> r.value[1].bucket] ELSE r

\* Where the walk goes from the head of 'outer, up to its next read of a
\* counter: it returns ("done"), pushes the bucket at current_idx for a
\* percentile that is already satisfied ("push_outer"), leaves the loops
\* because no bucket is left ("fill"), or reads the next counter ("inner").
WalkNext(h, ps, total, w) ==
    IF w.percentile_idx >= Len(ps) THEN "done"
    ELSE IF w.have >= Needed(ps[w.percentile_idx + 1], total) THEN "push_outer"
    ELSE IF w.current_idx >= total_bins(h.config) THEN "fill"
    ELSE "inner"

(***************************************************************************)
(* compact::Histogram: the sparse form, two parallel vectors holding the    *)
(* indices (0-based) and the counts of the non-zero buckets                 *)
(***************************************************************************)
\* impl _Histograms for compact::Histogram: config()
CompactConfig(s) == ConfigNew(s.a, s.b, s.n).config

\* impl _Histograms for compact::Histogram: total_count()
CompactTotalCount(s) == SumTo(s.count, Len(s.count))

\* slice::binary_search over the positions lo..hi-1 (0-based) of a sorted
\* vector: Ok(position) when x is found, Err otherwise
RECURSIVE BinarySearch(_, _, _, _)
BinarySearch(vec, x, lo, hi) ==
    IF lo >= hi
      THEN [ok |-> FALSE]
      ELSE LET mid == lo + (hi - lo) \div 2
           IN IF vec[mid + 1] = x THEN [ok |-> TRUE, pos |-> mid]
              ELSE IF vec[mid + 1] < x THEN BinarySearch(vec, x, mid + 1, hi)
              ELSE BinarySearch(vec, x, lo, mid)

\* get_count reading the count vector at the bucket index itself
CompactGetCount_NoSearch(s, index) ==
    IF index < Len(s.count) THEN s.count[index + 1] ELSE 0

\* impl _Histograms for compact::Histogram: get_count(index)
CompactGetCount(s, index) ==
    LET r == BinarySearch(s.index, index, 0, Len(s.index))
    IN IF r.ok
         THEN IF r.pos < Len(s.count) THEN s.count[r.pos + 1] ELSE 0
         ELSE 0

\* the loop of From: buckets i.. of the source, in order, zero counts skipped
RECURSIVE PushNonZero(_, _, _)
PushNonZero(buckets, i, s) ==
    IF i >= Len(buckets) THEN s
    ELSE PushNonZero(buckets, i + 1,
            IF buckets[i + 1] # 0
              THEN [s EXCEPT !.index = Append(@, i), !.count = Append(@, buckets[i + 1])]
              ELSE s)

\* the same loop without .filter(|(_i, c)| **c != 0)
RECURSIVE PushAll(_, _, _)
PushAll(buckets, i, s) ==
    IF i >= Len(buckets) THEN s
    ELSE PushAll(buckets, i + 1,
            [s EXCEPT !.index = Append(@, i), !.count = Append(@, buckets[i + 1])])

\* From without the filter
FromHistogram_KeepZeros(other) ==
    PushAll(other.buckets, 0,
            [a |-> other.config.a, b |-> other.config.b, n |-> other.config.n,
             index |-> <<>>, count |-> <<>>])

\* impl From<&crate::Histogram> for compact::Histogram
FromHistogram(other) ==
    PushNonZero(other.buckets, 0,
                [a |-> other.config.a, b |-> other.config.b, n |-> other.config.n,
                 index |-> <<>>, count |-> <<>>])

\* impl From<&crate::atomic::Histogram> for compact::Histogram: the counters
\* are loaded one by one; the store is not written to meanwhile
FromAtomicHistogram(other) ==
    PushNonZero([i \in 1..Len(other.buckets) |-> other.buckets[i]], 0,
                [a |-> other.config.a, b |-> other.config.b, n |-> other.config.n,
                 index |-> <<>>, count |-> <<>>])

(***************************************************************************)
(* sliding_window: Common, range and the exclusive window                   *)
(*                                                                         *)
(* Instants and durations are whole nanoseconds held in a u64 of NanosBits  *)
(* bits.  The clock reads Now when a window is constructed; the windows     *)
(* that are written to stay far from the ends of that range.                *)
(* precise::Instant and Duration are not among the sources: their           *)
(* arithmetic is that of precise::UnixInstant (unix_instant.rs), plain `+`  *)
(* and `-` on the nanoseconds.                                              *)
(***************************************************************************)
\* assert!(resolution >= 1000)
MinResolution == 1000

\* Instant::now() at construction
Now == 8 * MinResolution

\* UnixInstant::now() at construction: the wall clock is ahead of the
\* monotonic clock
UnixNow == 3 * Now

\* u64::MAX of the nanoseconds
NanosMax == 2^NanosBits - 1

\* how the crate is compiled: overflow checks on or off
Builds == {"debug", "release"}

\* `+` on nanoseconds: past u64::MAX the sum wraps in a release build and
\* panics in a debug build
NanosAdd(x, d, build) ==
    IF x + d <= NanosMax THEN [panic |-> FALSE, ns |-> x + d]
    ELSE IF build = "debug" THEN [panic |-> TRUE, ns |-> 0]
    ELSE [panic |-> FALSE, ns |-> (x + d) % 2^NanosBits]

\* `-` on nanoseconds: below zero the difference wraps in a release build
\* and panics in a debug build
NanosSub(x, d, build) ==
    IF d <= x THEN [panic |-> FALSE, ns |-> x - d]
    ELSE IF build = "debug" THEN [panic |-> TRUE, ns |-> 0]
    ELSE [panic |-> FALSE, ns |-> (x + 2^NanosBits - d) % 2^NanosBits]

\* `resolution as u64 * slices as u64`: past u64::MAX the product wraps in a
\* release build and panics in a debug build
NanosMul(x, y, build) ==
    IF x * y <= NanosMax THEN [panic |-> FALSE, ns |-> x * y]
    ELSE IF build = "debug" THEN [panic |-> TRUE, ns |-> 0]
    ELSE [panic |-> FALSE, ns |-> (x * y) % 2^NanosBits]

NoWindow == [kind |-> "none"]

\* Common::new: the asserts, the span, the check of (a, b, n), one extra slice
CommonNew(a, b, n, resolution, slices, build) ==
    IF resolution > NanosMax \/ resolution < MinResolution
      THEN [tag |-> "Panic"]
      ELSE LET span == NanosMul(resolution, slices, build)
               c == ConfigNew(a, b, n)
               tick_origin == NanosSub(Now, span.ns, build)
           IN IF span.panic
                THEN [tag |-> "Panic"]
              ELSE IF ~c.ok
                THEN [tag |-> "Err", err |-> c.err]
              ELSE IF tick_origin.panic
                THEN [tag |-> "Panic"]
              ELSE [tag |-> "Ok",
                    common |-> [resolution |-> resolution,
                                span |-> span.ns,
                                started |-> UnixNow,
                                tick_origin |-> tick_origin.ns,
                                num_slices |-> slices + 1]]

\* start_unix that moves `started` alone
StartUnix_StartedOnly(common, start, build) ==
    [tag |-> "Ok", common |-> [common EXCEPT !.started = start]]

\* Builder::start_unix
StartUnix(common, start, build) ==
    IF common.started < start
      THEN LET delta == start - common.started
               started == NanosAdd(common.started, delta, build)
               tick_origin == NanosAdd(common.tick_origin, delta, build)
           IN IF started.panic \/ tick_origin.panic THEN [tag |-> "Panic"]
              ELSE [tag |-> "Ok",
                    common |-> [common EXCEPT !.started = started.ns,
                                              !.tick_origin = tick_origin.ns]]
      ELSE LET delta == common.started - start
               started == NanosSub(common.started, delta, build)
               tick_origin == NanosSub(common.tick_origin, delta, build)
           IN IF started.panic \/ tick_origin.panic THEN [tag |-> "Panic"]
              ELSE [tag |-> "Ok",
                    common |-> [common EXCEPT !.started = started.ns,
                                              !.tick_origin = tick_origin.ns]]

\* Builder::start_instant
StartInstant(common, start, build) ==
    IF common.tick_origin < start
      THEN LET delta == start - common.tick_origin
               started == NanosAdd(common.started, delta, build)
               tick_origin == NanosAdd(common.tick_origin, delta, build)
           IN IF started.panic \/ tick_origin.panic THEN [tag |-> "Panic"]
              ELSE [tag |-> "Ok",
                    common |-> [common EXCEPT !.started = started.ns,
                                              !.tick_origin = tick_origin.ns]]
      ELSE LET delta == common.tick_origin - start
               started == NanosSub(common.started, delta, build)
               tick_origin == NanosSub(common.tick_origin, delta, build)
           IN IF started.panic \/ tick_origin.panic THEN [tag |-> "Panic"]
              ELSE [tag |-> "Ok",
                    common |-> [common EXCEPT !.started = started.ns,
                                              !.tick_origin = tick_origin.ns]]

\* _SlidingWindow::max_idx
max_idx(w) == w.common.num_slices - 1

\* range without the clamp of intervals longer than the span
range_NoClamp(w, start, end) ==
    LET interval_ticks ==
            IF end < start THEN 0
            ELSE (end - start) \div w.common.resolution
        offset_ticks ==
            IF start <= w.common.tick_origin THEN 0
            ELSE (start - w.common.tick_origin) \div w.common.resolution
        s == offset_ticks % w.common.num_slices
    IN <<s, (s + interval_ticks) % w.common.num_slices>>

\* _SlidingWindow::range: the ring slots (0-based) of two instants
range(w, start, end) ==
    LET interval_ticks ==
            IF end < start THEN 0
            ELSE IF end >= start + w.common.span THEN max_idx(w)
            ELSE (end - start) \div w.common.resolution
        offset_ticks ==
            IF start <= w.common.tick_origin THEN 0
            ELSE (start - w.common.tick_origin) \div w.common.resolution
        s == offset_ticks % w.common.num_slices
    IN <<s, (s + interval_ticks) % w.common.num_slices>>

\* new with tick_at set to the tick origin itself
WindowNewOutcome_TickAtOrigin(k, a, b, n, resolution, slices, build) ==
    LET c == CommonNew(a, b, n, resolution, slices, build)
    IN IF c.tag # "Ok" THEN c
       ELSE LET live == NewOutcome(a, b, n)
            IN IF live.tag # "Ok" THEN [tag |-> "Err", err |-> live.err]
               ELSE [tag |-> "Ok",
                     window |-> [kind |-> k,
                                 common |-> c.common,
                                 tick_at |-> c.common.tick_origin,
                                 live |-> live.hist,
                                 snapshots |-> [i \in 1..c.common.num_slices |-> live.hist]]]

\* sliding_window::standard::Histogram::new, sliding_window::atomic::Histogram::new
WindowNewOutcome(k, a, b, n, resolution, slices, build) ==
    LET c == CommonNew(a, b, n, resolution, slices, build)
    IN IF c.tag # "Ok" THEN c
       ELSE LET live == NewOutcome(a, b, n)
            IN IF live.tag # "Ok" THEN [tag |-> "Err", err |-> live.err]
               ELSE LET tick_at == NanosAdd(c.common.tick_origin, c.common.resolution, build)
                    IN IF tick_at.panic THEN [tag |-> "Panic"]
                       ELSE [tag |-> "Ok",
                             window |-> [kind |-> k,
                                         common |-> c.common,
                                         tick_at |-> tick_at.ns,
                                         live |-> live.hist,
                                         snapshots |-> [i \in 1..c.common.num_slices |->
                                                          live.hist]]]

\* the ring slot a rotation copies live into, tick_at being the boundary that
\* was reached: the start index of range(end - duration, end)
RotationSlot(w, tick_at) ==
    LET duration == w.common.resolution * Len(w.snapshots)
        end == tick_at - w.common.resolution
        start == end - duration
    IN range(w, start, end)[1]

\* a rotation that moves live into the ring slot and starts live again from
\* zero
CopyLive_TakeLive(w, slot) ==
    [w EXCEPT !.snapshots[slot + 1] = [@ EXCEPT !.buckets = w.live.buckets],
              !.live = [@ EXCEPT !.buckets = [i \in 1..Len(w.live.buckets) |-> 0]]]

\* dst.copy_from_slice(src): live copied into the ring slot
CopyLive(w, slot) ==
    [w EXCEPT !.snapshots[slot + 1] = [@ EXCEPT !.buckets = w.live.buckets]]

\* sliding_window::standard::Histogram::add_at
WindowAddAt(w, instant, value, count) ==
    IF instant < w.tick_at
      THEN LET r == HistogramAdd(w.live, value, count)
           IN [res |-> r.res, window |-> [w EXCEPT !.live = r.hist]]
      ELSE LET tick_next == w.tick_at + w.common.resolution
               w1 == [CopyLive(w, RotationSlot(w, w.tick_at)) EXCEPT !.tick_at = tick_next]
               r == HistogramAdd(w1.live, value, count)
           IN [res |-> r.res, window |-> [w1 EXCEPT !.live = r.hist]]

\* a compare-and-swap that fails whatever the value
compare_exchange_Fails(current, expected, new) ==
    [ok |-> FALSE, value |-> current]

\* tick_at.store(new) in place of the compare-and-swap: it always succeeds
compare_exchange_Store(current, expected, new) ==
    [ok |-> TRUE, value |-> new]

\* AtomicInstant::compare_exchange(expected, new): succeeds only on the
\* expected value
compare_exchange(current, expected, new) ==
    IF current = expected
      THEN [ok |-> TRUE, value |-> new]
      ELSE [ok |-> FALSE, value |-> current]

\* a fast path that also returns when the timestamp is on the boundary
AfterLoad_ReturnsOnBoundary(call, tick_at) ==
    IF call.instant <= tick_at
      THEN [k \in DOMAIN call |->
              IF k = "pc" THEN "add"
              ELSE IF k \in {"value", "instant"} THEN call[k] ELSE 0]
      ELSE [call EXCEPT !.pc = "cas", !.tick_at = tick_at]

\* sliding_window::atomic::Histogram::snapshot, from the load of tick_at to
\* the test of the fast path: the call goes on to the compare-and-swap, or
\* snapshot returns (its locals go with it) and add_at, which still has its
\* arguments, goes on to live.add
AfterLoad(call, tick_at) ==
    IF call.instant < tick_at
      THEN [k \in DOMAIN call |->
              IF k = "pc" THEN "add"
              ELSE IF k \in {"value", "instant"} THEN call[k] ELSE 0]
      ELSE [call EXCEPT !.pc = "cas", !.tick_at = tick_at]

\* sliding_window::atomic::Histogram::snapshot called with no other caller
\* at work: every compare-and-swap succeeds, and after the copy the loop
\* starts again
RECURSIVE SnapshotAlone(_, _)
SnapshotAlone(w, instant) ==
    LET call == AfterLoad([pc |-> "load", instant |-> instant, tick_at |-> 0], w.tick_at)
    IN IF call.pc = "add" THEN w
       ELSE LET r == compare_exchange(w.tick_at, call.tick_at,
                                      call.tick_at + w.common.resolution)
                w1 == [CopyLive(w, RotationSlot(w, call.tick_at)) EXCEPT !.tick_at = r.value]
            IN SnapshotAlone(w1, instant)

\* sliding_window::atomic::Histogram::add_at called with no other caller at
\* work: snapshot(instant), then live.add(value, count)
AtomicAddAt(w, instant, value, count) ==
    LET w1 == SnapshotAlone(w, instant)
        r == AtomicAdd(w1.live, value, count)
    IN [res |-> r.res, window |-> [w1 EXCEPT !.live = r.hist]]

\* metriken::Histogram::new: the parameters are kept, nothing is built
MetricNew(a, b, n, resolution, slices) ==
    [kind |-> "metric", a |-> a, b |-> b, n |-> n, resolution |-> resolution,
     slices |-> slices, inner |-> NoWindow]

\* metriken::Histogram::get_or_init: the window is built on first use, and
\* unwrap() panics when it cannot be
GetOrInit(m, build) ==
    IF m.inner # NoWindow THEN [tag |-> "Ok", metric |-> m]
    ELSE LET o == WindowNewOutcome("atomic", m.a, m.b, m.n, m.resolution, m.slices, build)
         IN IF o.tag = "Ok" THEN [tag |-> "Ok", metric |-> [m EXCEPT !.inner = o.window]]
            ELSE [tag |-> "Panic", metric |-> m]

\* metriken::Histogram::snapshot_between and percentile: inner.get().map(..)
InnerGet(m) == IF m.inner = NoWindow THEN "None" ELSE "Some"

\* the store handed to percentiles by percentiles_between: bucket by bucket
\* end.wrapping_sub(start), wrapped by Histogram::from_raw
DeltaStore(w, slots) ==
    [config |-> w.live.config,
     buckets |-> [i \in 1..Len(w.live.buckets) |->
                    WrapU64(w.snapshots[slots[2] + 1].buckets[i] + 2^WordBits
                            - w.snapshots[slots[1] + 1].buckets[i])]]

\* SlidingWindowHistograms::percentiles_between
PercentilesBetween(w, start, end, percentiles) ==
    Percentiles(DeltaStore(w, range(w, start, end)), percentiles)

\* SlidingWindowHistograms::percentiles_last: the interval of the given
\* length that ends one resolution before tick_at
PercentilesLast(w, duration, percentiles) ==
    LET end == w.tick_at - w.common.resolution
        start == end - duration
    IN PercentilesBetween(w, start, end, percentiles)

\* Histograms::percentiles of a sliding window: percentiles_last over
\* resolution * snapshots.len()
WindowPercentiles(w, percentiles) ==
    PercentilesLast(w, w.common.resolution * Len(w.snapshots), percentiles)

(***************************************************************************)
(* Inputs                                                                  *)
(***************************************************************************)
\* parameters tried by the constructors: every small u8 and the largest one
U8Params == (0..(WordBits + 1)) \cup {U8Max}
\* every layout with n up to the word width, valid or not
AllLayouts == (0..WordBits) \X (0..WordBits) \X (0..(WordBits + 1))
\* layouts of the stores that are written to and queried
StoreLayouts == {0, 1} \X {0, 1} \X {WordBits - 1, WordBits}
\* counts handed to add: one, and the largest u64
Counts == {1, U64Max}
\* values the writer threads record: two small ones and the largest u64
ThreadValues == {0, 1, U64Max}
\* lists handed to percentiles(): none, one or two percentiles in any order,
\* and three of which two are equal
PercentileLists ==
    {<<>>} \cup {<<p>> : p \in Percents} \cup ({0, 50, 100} \X {0, 50, 100})
           \cup {<<p, q, p>> : p \in {50, 100}, q \in {0, 100}}

\* lists handed to a percentiles() that runs beside the writers
WalkLists == {<<p>> : p \in Percents} \cup {<<50, 100>>, <<100, 50>>, <<100, 100>>}
\* values the writers record during a query: the first two buckets
WriterValues == {0, 1}

\* the layout of the sliding windows: the buckets [0] and [1]
WindowLayouts == {<<0, 0, 1>>}
\* resolutions and numbers of slices handed to the window constructors
Resolutions == {MinResolution - 1, MinResolution}
SliceCounts == {1, 2}
\* what the constructors are tried with: layouts valid and not, resolutions
\* below the minimum, at the minimum, of half the range of u64 and past u64
BuildLayouts == {0, 1} \X {0, 1} \X {1, WordBits + 1}
BuildResolutions == {MinResolution - 1, MinResolution, 2^(NanosBits - 1), 2^NanosBits}
\* the wall-clock anchors of a builder: the epoch, and one resolution before
\* and after the construction
UnixAnchors == {0, UnixNow - MinResolution, UnixNow, UnixNow + MinResolution}
\* the monotonic anchors of a builder: zero, one resolution before the
\* construction, the construction, and the largest instant
InstantAnchors == {0, Now - MinResolution, Now, NanosMax}
\* timestamps handed to a metric: one resolution before the construction of
\* its window, the construction, and more than MaxAhead ticks after it
MetricInstants == {Now - MinResolution, Now, Now + MaxAhead * MinResolution + 1}
\* values recorded in a window
WindowValues == {0, 1}
\* values handed to a window that rejects some of them: 1 is in the range of
\* the layout, 2 = 2^n is not
ValuesAroundRange == {1, 2}
\* timestamps handed to add_at: the start of the tick before the next
\* boundary, the boundary, and more than MaxAhead ticks after the boundary
AddInstants(w) ==
    {w.tick_at - w.common.resolution, w.tick_at,
     w.tick_at + MaxAhead * w.common.resolution + 1}
\* the tick boundaries a window is asked about: the next one and the
\* num_slices + 1 before it
QueryInstants(w) ==
    {w.tick_at - j * w.common.resolution : j \in 0..(w.common.num_slices + 1)}
\* the intervals a window is asked about: between two of these boundaries,
\* in order or reversed by one tick
QueryIntervals(w) ==
    {i \in QueryInstants(w) \X QueryInstants(w) : i[2] + w.common.resolution >= i[1]}
\* the instants range() is tried with: around the origin and around every
\* boundary up to one past the span
RangeInstants(w) ==
    {w.common.tick_origin + k * w.common.resolution + d :
        k \in -1..(w.common.num_slices + 1), d \in {-1, 0, 1}}
\* the callers of the shared window
Callers == {"c1", "c2"}
\* the calls add_at of one behaviour of the shared window
MaxCalls == Cardinality(Callers)
\* the durations percentiles_last is asked about: one tick and the span
LastDurations(w) == {w.common.resolution, w.common.span}
\* the interval the shared window is asked about: the tick before the newest
\* boundary
ReadIntervals(w) ==
    {<<w.tick_at - 2 * w.common.resolution, w.tick_at - w.common.resolution>>}
\* the value the callers of the shared window record (which counter a call
\* increments plays no part in the rotation)
CallerValues == {1}
\* a caller that is in no call
Idle == [pc |-> "idle"]
\* the ticks of the window's life: tick k begins at tick_origin + k * resolution
Ticks == 0..(MaxAdds + MaxAhead + 2)
\* nothing recorded: no window yet
NoHistory == [tag |-> "none"]

(***************************************************************************)
(* Initial state: nothing constructed yet                                  *)
(***************************************************************************)
Init ==
    /\ kind = "none"
    /\ hist = NoHist
    /\ builder = NoHist
    /\ last = [op |-> "init"]
    /\ recorded = 0
    /\ done = [t \in Threads |-> 0]
    /\ written = [v \in ThreadValues |-> 0]
    /\ window = NoWindow
    /\ callers = [c \in Callers |-> Idle]
    /\ reader = [op |-> "init"]
    /\ history = NoHistory

(***************************************************************************)
(* Construction                                                            *)
(***************************************************************************)
\* standard::Histogram::new (k = "standard"), atomic::Histogram::new (k = "atomic")
New(k, a, b, n) ==
    /\ last.op = "init"
    /\ LET o == NewOutcome(a, b, n)
       IN /\ hist' = o.hist
          /\ kind' = IF o.tag = "Ok" THEN k ELSE "none"
          /\ last' = [op |-> "new", kind |-> k, a |-> a, b |-> b, n |-> n,
                      res |-> IF o.tag = "Ok" THEN "Ok" ELSE o.err]
    /\ UNCHANGED <<builder, recorded, done, written>>
    /\ UNCHANGED windowVars

\* standard::Builder::new, atomic::Builder::new
BuilderNew(k, a, b, n) ==
    /\ last.op = "init"
    /\ \E o \in BuilderNewOutcomes(a, b, n) :
          /\ builder' = IF o.tag = "Ok"
                          THEN [tag |-> "builder", kind |-> k, a |-> o.a, b |-> o.b, n |-> o.n]
                          ELSE NoHist
          /\ last' = [op |-> "Builder::new", kind |-> k, a |-> a, b |-> b, n |-> n,
                      res |-> IF o.tag = "Err" THEN o.err ELSE o.tag]
    /\ UNCHANGED <<kind, hist, recorded, done, written>>
    /\ UNCHANGED windowVars

\* Builder::build
BuilderBuild ==
    /\ last.op = "Builder::new"
    /\ builder # NoHist
    /\ LET o == NewOutcome(builder.a, builder.b, builder.n)
       IN /\ hist' = o.hist
          /\ kind' = IF o.tag = "Ok" THEN builder.kind ELSE "none"
          /\ last' = [op |-> "Builder::build", kind |-> builder.kind,
                      a |-> builder.a, b |-> builder.b, n |-> builder.n,
                      res |-> IF o.tag = "Ok" THEN "Ok" ELSE o.err]
    /\ UNCHANGED <<builder, recorded, done, written>>
    /\ UNCHANGED windowVars

\* A query changes nothing but `last`: the store after it is the store before
\* it.  A behaviour of the model therefore ends with its query; every store
\* state is still queried with every input.
QueryOps == {"percentiles", "percentile", "walk"}

(***************************************************************************)
(* Recording                                                               *)
(***************************************************************************)
\* Histogram::add(value, count)
Add(value, count) ==
    /\ kind # "none"
    /\ last.op \notin QueryOps
    /\ recorded < MaxOps
    /\ LET r == StoreAdd(kind, hist, value, count)
       IN /\ hist' = r.hist
          /\ last' = [op |-> "add", value |-> value, count |-> count, res |-> r.res]
          /\ recorded' = IF r.res = "Ok" THEN recorded + 1 ELSE recorded
    /\ UNCHANGED <<kind, builder, done, written>>
    /\ UNCHANGED windowVars

\* Histogram::increment(value): self.add(value, 1)
Increment(value) ==
    /\ kind # "none"
    /\ last.op \notin QueryOps
    /\ recorded < MaxOps
    /\ LET r == StoreAdd(kind, hist, value, 1)
       IN /\ hist' = r.hist
          /\ last' = [op |-> "increment", value |-> value, count |-> 1, res |-> r.res]
          /\ recorded' = IF r.res = "Ok" THEN recorded + 1 ELSE recorded
    /\ UNCHANGED <<kind, builder, done, written>>
    /\ UNCHANGED windowVars

(***************************************************************************)
(* Queries                                                                 *)
(***************************************************************************)
QueryPercentiles(ps) ==
    /\ kind # "none"
    /\ last.op \notin QueryOps
    /\ last' = [op |-> "percentiles", ps |-> ps, res |-> Percentiles(hist, ps)]
    /\ UNCHANGED <<kind, hist, builder, recorded, done, written>>
    /\ UNCHANGED windowVars

QueryPercentile(p) ==
    /\ kind # "none"
    /\ last.op \notin QueryOps
    /\ last' = [op |-> "percentile", p |-> p, res |-> Percentile(hist, p)]
    /\ UNCHANGED <<kind, hist, builder, recorded, done, written>>
    /\ UNCHANGED windowVars

\* compact::Histogram::from(&histogram)
Compact ==
    /\ kind # "none"
    /\ last.op # "compact"
    /\ last' = [op |-> "compact",
                res |-> IF kind = "atomic" THEN FromAtomicHistogram(hist)
                                           ELSE FromHistogram(hist)]
    /\ UNCHANGED <<kind, hist, builder, recorded, done, written>>
    /\ UNCHANGED windowVars

\* the bucket a value is counted in: value_to_index, then get_bucket
ValueToBucket(value) ==
    /\ kind # "none"
    /\ LET r == value_to_index(hist.config, value)
       IN last' = IF r.ok
                    THEN [op |-> "value_to_bucket", value |-> value, res |-> "Ok",
                          index |-> r.index, bucket |-> get_bucket(hist, r.index)]
                    ELSE [op |-> "value_to_bucket", value |-> value, res |-> r.err]
    /\ UNCHANGED <<kind, hist, builder, recorded, done, written>>
    /\ UNCHANGED windowVars

\* get_bucket(index) for an index of the counter array
GetBucket(index) ==
    /\ kind # "none"
    /\ index < Len(hist.buckets)
    /\ last' = [op |-> "get_bucket", index |-> index, res |-> get_bucket(hist, index)]
    /\ UNCHANGED <<kind, hist, builder, recorded, done, written>>
    /\ UNCHANGED windowVars

(***************************************************************************)
(* Writer threads of the shared store                                      *)
(***************************************************************************)
\* one histogram.increment(value) of thread t
ThreadIncrement(t, value) ==
    /\ kind = "atomic"
    /\ done[t] < MIncr
    /\ LET r == AtomicAdd(hist, value, 1)
       IN /\ hist' = r.hist
          /\ last' = [op |-> "thread_increment", thread |-> t, value |-> value,
                      res |-> r.res]
          /\ done' = IF r.res = "Ok" THEN [done EXCEPT ![t] = @ + 1] ELSE done
          /\ written' = IF r.res = "Ok" THEN [written EXCEPT ![value] = @ + 1] ELSE written
    /\ UNCHANGED <<kind, builder, recorded>>
    /\ UNCHANGED windowVars

\* all threads joined: total_count()
Join ==
    /\ kind = "atomic"
    /\ \A t \in Threads : done[t] = MIncr
    /\ last.op # "join"
    /\ last' = [op |-> "join", total |-> total_count(hist)]
    /\ UNCHANGED <<kind, hist, builder, recorded, done, written>>
    /\ UNCHANGED windowVars

(***************************************************************************)
(* Histograms::percentiles on the shared store, one read of a counter per  *)
(* step, while the writers increment.  `last` holds the locals of the      *)
(* call: the sorted percentiles, the index i and the sum of total_count(), *)
(* the locals w of the walk, and the counters as they were when the call   *)
(* began.                                                                  *)
(***************************************************************************)
\* one histogram.increment(value) of writer t while a query is under way
WriterIncrement(t, value) ==
    /\ kind = "atomic"
    /\ last.op = "walk"
    /\ done[t] < MIncr
    /\ LET r == AtomicAdd(hist, value, 1)
       IN /\ r.res = "Ok"
          /\ hist' = r.hist
          /\ done' = [done EXCEPT ![t] = @ + 1]
    /\ UNCHANGED <<kind, builder, last, recorded, written>>
    /\ UNCHANGED windowVars

\* percentiles(ps) is called: nothing is read yet
WalkBegin(ps) ==
    /\ kind = "atomic"
    /\ last.op \notin QueryOps
    /\ last' = [op |-> "walk", pc |-> "total", ps |-> SortAsc(ps), i |-> 0,
                total |-> 0, w |-> WalkInit, begin |-> hist.buckets]
    /\ UNCHANGED <<kind, hist, builder, recorded, done, written>>
    /\ UNCHANGED windowVars

\* total_count(): one load of the sum; after the last one the Empty check
WalkTotal ==
    /\ last.op = "walk"
    /\ last.pc = "total"
    /\ LET total == last.total + get_count(hist, last.i)
           finished == last.i + 1 >= Len(hist.buckets)
       IN last' = [last EXCEPT
                     !.total = total,
                     !.i = @ + 1,
                     !.pc = IF ~finished THEN "total"
                            ELSE IF total = 0 THEN "empty"
                            ELSE WalkNext(hist, last.ps, total, last.w)]
    /\ UNCHANGED <<kind, hist, builder, recorded, done, written>>
    /\ UNCHANGED windowVars

\* 'inner: get_count(current_idx), and what follows it up to the next read
WalkGetCount ==
    /\ last.op = "walk"
    /\ last.pc = "inner"
    /\ LET w == last.w
           current_count == get_count(hist, w.current_idx)
           w1 == [w EXCEPT !.max_idx = IF current_count > 0 THEN w.current_idx ELSE @,
                           !.have = @ + current_count]
           needed == Needed(last.ps[w.percentile_idx + 1], last.total)
           w2 == [w1 EXCEPT !.current_idx = @ + 1]
       IN last' = IF w1.have >= needed
                    THEN [last EXCEPT !.w = w1, !.pc = "push_inner"]
                    ELSE [last EXCEPT !.w = w2,
                                      !.pc = WalkNext(hist, last.ps, last.total, w2)]
    /\ UNCHANGED <<kind, hist, builder, recorded, done, written>>
    /\ UNCHANGED windowVars

\* result.push((percentile, get_bucket(current_idx))): get_bucket loads the
\* counter again; after the push of 'inner, current_idx += 1
WalkGetBucket ==
    /\ last.op = "walk"
    /\ last.pc \in {"push_inner", "push_outer"}
    /\ LET w == last.w
       IN last' = IF w.current_idx >= Len(hist.buckets)
                    THEN [last EXCEPT !.pc = "panic"]
                    ELSE LET w1 == Push(hist, w, last.ps[w.percentile_idx + 1])
                             w2 == IF last.pc = "push_inner"
                                     THEN [w1 EXCEPT !.current_idx = @ + 1]
                                     ELSE w1
                         IN [last EXCEPT !.w = w2,
                                         !.pc = WalkNext(hist, last.ps, last.total, w2)]
    /\ UNCHANGED <<kind, hist, builder, recorded, done, written>>
    /\ UNCHANGED windowVars

\* after `break 'outer`: one push of get_bucket(max_idx) per step
WalkFill ==
    /\ last.op = "walk"
    /\ last.pc = "fill"
    /\ LET w == last.w
           entry == [percentile |-> last.ps[Len(w.result) + 1],
                     bucket |-> get_bucket(hist, w.max_idx)]
           w1 == [w EXCEPT !.result = Append(@, entry)]
       IN last' = [last EXCEPT !.w = w1,
                              !.pc = IF Len(w1.result) >= Len(last.ps)
                                       THEN "filled" ELSE "fill"]
    /\ UNCHANGED <<kind, hist, builder, recorded, done, written>>
    /\ UNCHANGED windowVars

(***************************************************************************)
(* Specifications                                                          *)
(***************************************************************************)
\* a store of either kind and the calls that write to it
Next ==
    \/ \E k \in {"standard", "atomic"}, l \in StoreLayouts : New(k, l[1], l[2], l[3])
    \/ \E v \in U64, c \in Counts : Add(v, c)
    \/ \E v \in U64 : Increment(v)

Spec == Init /\ [][Next]_vars

\* a store that is written to and then queried (the percentile walk is written
\* once, against _Histograms; the exclusive store stands for its implementors)
NextQuery ==
    \/ \E l \in StoreLayouts : New("standard", l[1], l[2], l[3])
    \/ \E v \in U64, c \in Counts : Add(v, c)
    \/ \E ps \in PercentileLists : QueryPercentiles(ps)
    \/ \E p \in Percents : QueryPercentile(p)

SpecQuery == Init /\ [][NextQuery]_vars

\* the bucket layout: every layout, every value, every bucket
NextLayout ==
    \/ \E l \in AllLayouts : New("standard", l[1], l[2], l[3])
    \/ \E v \in U64 : ValueToBucket(v)
    \/ \E i \in 0..(2^(WordBits + 1)) : GetBucket(i)

SpecLayout == Init /\ [][NextLayout]_vars

\* construction, through the constructors and through the builders
NextBuild ==
    \/ \E k \in {"standard", "atomic"}, a \in U8Params, b \in U8Params, n \in U8Params :
          \/ New(k, a, b, n)
          \/ BuilderNew(k, a, b, n)
    \/ BuilderBuild

SpecBuild == Init /\ [][NextBuild]_vars

\* the shared store under NThreads writers
NextAtomic ==
    \/ \E l \in StoreLayouts : New("atomic", l[1], l[2], l[3])
    \/ \E t \in Threads, v \in ThreadValues : ThreadIncrement(t, v)
    \/ Join

SpecAtomic == Init /\ [][NextAtomic]_vars

\* a store of either kind that is written to and converted to the sparse form
NextCompact ==
    \/ \E k \in {"standard", "atomic"}, l \in StoreLayouts : New(k, l[1], l[2], l[3])
    \/ \E v \in U64, c \in Counts : Add(v, c)
    \/ Compact

SpecCompact == Init /\ [][NextCompact]_vars

\* the shared store incremented by its writers and queried in between
NextAtomicQuery ==
    \/ \E l \in StoreLayouts : New("atomic", l[1], l[2], l[3])
    \/ \E t \in Threads, v \in ThreadValues : ThreadIncrement(t, v)
    \/ \E p \in Percents : QueryPercentile(p)

SpecAtomicQuery == Init /\ [][NextAtomicQuery]_vars

\* the shared store, filled and then queried read by read while its writers
\* increment
NextAtomicWalk ==
    \/ \E l \in StoreLayouts : New("atomic", l[1], l[2], l[3])
    \/ \E v \in ThreadValues, c \in Counts : Add(v, c)
    \/ \E ps \in WalkLists : WalkBegin(ps)
    \/ WalkTotal
    \/ WalkGetCount
    \/ WalkGetBucket
    \/ WalkFill
    \/ \E t \in Threads, v \in WriterValues : WriterIncrement(t, v)

SpecAtomicWalk == Init /\ [][NextAtomicWalk]_vars

(***************************************************************************)
(* The sliding window: construction, recording, queries                     *)
(***************************************************************************)
\* A query changes nothing but `reader`; a behaviour ends with its query.
WindowQueryOps == {"range", "percentiles_between", "percentiles_last", "percentiles"}

\* the tick an instant falls in
TickOf(w, instant) == (instant - w.common.tick_origin) \div w.common.resolution

\* the record of one add_at call that returned res and left the window w1:
\* the increment is counted under the tick of its timestamp and its bucket
Recorded(h, w1, instant, value, res) ==
    [h EXCEPT
       !.at = IF res = "Ok"
                THEN [@ EXCEPT ![TickOf(w1, instant)]
                                  [value_to_index(w1.live.config, value).index + 1] = @ + 1]
                ELSE @,
       !.monotone = @ /\ instant >= h.last_instant,
       !.rotated = @ /\ instant < w1.tick_at,
       !.last_instant = IF instant > @ THEN instant ELSE @,
       !.adds = @ + 1]

\* sliding_window::standard::Histogram::new (k = "standard"),
\* sliding_window::atomic::Histogram::new (k = "atomic")
WindowNew(k, a, b, n, resolution, slices) ==
    /\ reader.op = "init"
    /\ \E build \in Builds :
       LET o == WindowNewOutcome(k, a, b, n, resolution, slices, build)
       IN /\ window' = IF o.tag = "Ok" THEN o.window ELSE NoWindow
          /\ reader' = [op |-> "new", kind |-> k, a |-> a, b |-> b, n |-> n,
                        resolution |-> resolution, slices |-> slices,
                        res |-> IF o.tag = "Err" THEN o.err ELSE o.tag]
          /\ history' = IF o.tag = "Ok"
                           THEN [at |-> [k1 \in Ticks |->
                                           [i \in 1..Len(o.window.live.buckets) |-> 0]],
                                 monotone |-> TRUE,
                                 rotated |-> TRUE,
                                 last_instant |-> 0,
                                 adds |-> 0,
                                 wins |-> {},
                                 copies |-> 0]
                           ELSE NoHistory
    /\ UNCHANGED callers
    /\ UNCHANGED storeVars

\* sliding_window::Builder::new
WindowBuilderNew(a, b, n, resolution, slices) ==
    /\ reader.op = "init"
    /\ \E build \in Builds :
       LET o == CommonNew(a, b, n, resolution, slices, build)
       IN /\ window' = IF o.tag = "Ok" THEN [kind |-> "builder", common |-> o.common]
                                       ELSE NoWindow
          /\ reader' = [op |-> "builder_new", a |-> a, b |-> b, n |-> n,
                        resolution |-> resolution, slices |-> slices,
                        res |-> IF o.tag = "Err" THEN o.err ELSE o.tag,
                        anchors |-> 0]
    /\ UNCHANGED <<callers, history>>
    /\ UNCHANGED storeVars

\* sliding_window::Builder::start_unix; a panic leaves no builder
AnchorUnix(start) ==
    /\ window.kind = "builder"
    /\ reader.anchors < MaxAnchors
    /\ \E build \in Builds :
       LET o == StartUnix(window.common, start, build)
       IN /\ window' = IF o.tag = "Ok" THEN [window EXCEPT !.common = o.common]
                                       ELSE NoWindow
          /\ reader' = [op |-> "start_unix", start |-> start, res |-> o.tag,
                        anchors |-> reader.anchors + 1]
    /\ UNCHANGED <<callers, history>>
    /\ UNCHANGED storeVars

\* sliding_window::Builder::start_instant; a panic leaves no builder
AnchorInstant(start) ==
    /\ window.kind = "builder"
    /\ reader.anchors < MaxAnchors
    /\ \E build \in Builds :
       LET o == StartInstant(window.common, start, build)
       IN /\ window' = IF o.tag = "Ok" THEN [window EXCEPT !.common = o.common]
                                       ELSE NoWindow
          /\ reader' = [op |-> "start_instant", start |-> start, res |-> o.tag,
                        anchors |-> reader.anchors + 1]
    /\ UNCHANGED <<callers, history>>
    /\ UNCHANGED storeVars

\* sliding_window::standard::Histogram::increment_at: add_at(instant, value, 1)
IncrementAt(instant, value) ==
    /\ window.kind = "standard"
    /\ reader.op \notin WindowQueryOps
    /\ history.adds < MaxAdds
    /\ LET r == WindowAddAt(window, instant, value, 1)
           rotates == instant >= window.tick_at
           h == Recorded(history, r.window, instant, value, r.res)
       IN /\ window' = r.window
          /\ reader' = [op |-> "increment_at", instant |-> instant, value |-> value,
                        res |-> r.res,
                        slot |-> IF rotates THEN {RotationSlot(window, window.tick_at)}
                                            ELSE {}]
          /\ history' = IF rotates
                           THEN [h EXCEPT !.wins = @ \cup {<<window.tick_at, "owner">>},
                                          !.copies = @ + 1]
                           ELSE h
    /\ UNCHANGED callers
    /\ UNCHANGED storeVars

\* _SlidingWindow::range
QueryRange(start, end) ==
    /\ window.kind # "none"
    /\ reader.op \notin WindowQueryOps
    /\ reader' = [op |-> "range", start |-> start, end |-> end,
                  res |-> range(window, start, end)]
    /\ UNCHANGED <<window, callers, history>>
    /\ UNCHANGED storeVars

\* sliding_window::standard::Histogram::percentiles_between
QueryBetween(start, end, percentiles) ==
    /\ window.kind = "standard"
    /\ reader.op \notin WindowQueryOps
    /\ reader' = [op |-> "percentiles_between", start |-> start, end |-> end,
                  slots |-> range(window, start, end),
                  store |-> DeltaStore(window, range(window, start, end)),
                  res |-> PercentilesBetween(window, start, end, percentiles)]
    /\ UNCHANGED <<window, callers, history>>
    /\ UNCHANGED storeVars

\* sliding_window::standard::Histogram::percentiles_last
QueryLast(duration, percentiles) ==
    /\ window.kind = "standard"
    /\ reader.op \notin WindowQueryOps
    /\ reader' = [op |-> "percentiles_last", duration |-> duration,
                  percentiles |-> percentiles,
                  res |-> PercentilesLast(window, duration, percentiles)]
    /\ UNCHANGED <<window, callers, history>>
    /\ UNCHANGED storeVars

\* sliding_window::standard::Histogram::percentiles
QueryAll(percentiles) ==
    /\ window.kind = "standard"
    /\ reader.op \notin WindowQueryOps
    /\ reader' = [op |-> "percentiles", percentiles |-> percentiles,
                  res |-> WindowPercentiles(window, percentiles)]
    /\ UNCHANGED <<window, callers, history>>
    /\ UNCHANGED storeVars

\* range() on a window of either variant
NextRange ==
    \/ \E k \in {"standard", "atomic"}, l \in WindowLayouts, r \in Resolutions,
          n \in SliceCounts : WindowNew(k, l[1], l[2], l[3], r, n)
    \/ /\ window.kind # "none"
       /\ \E start \in RangeInstants(window), end \in RangeInstants(window) :
             QueryRange(start, end)

SpecRange == Init /\ [][NextRange]_vars

\* construction of a window of either variant and of a builder, and the
\* anchoring of the builder
NextWindowBuild ==
    \/ \E k \in {"standard", "atomic"}, l \in BuildLayouts, r \in BuildResolutions,
          n \in SliceCounts : WindowNew(k, l[1], l[2], l[3], r, n)
    \/ \E l \in BuildLayouts, r \in BuildResolutions, n \in SliceCounts :
          WindowBuilderNew(l[1], l[2], l[3], r, n)
    \/ \E start \in UnixAnchors : AnchorUnix(start)
    \/ \E start \in InstantAnchors : AnchorInstant(start)

SpecWindowBuild == Init /\ [][NextWindowBuild]_vars

\* metriken::Histogram::new
MetricHistogramNew(a, b, n, resolution, slices) ==
    /\ reader.op = "init"
    /\ window' = MetricNew(a, b, n, resolution, slices)
    /\ reader' = [op |-> "metric_new"]
    /\ history' = [tag |-> "metric", writes |-> 0]
    /\ UNCHANGED callers
    /\ UNCHANGED storeVars

\* metriken::Histogram::increment: get_or_init().add_at(time, value, 1)
MetricIncrement(time, value) ==
    /\ window.kind = "metric"
    /\ history.writes < MaxOps
    /\ \E build \in Builds :
       LET o == GetOrInit(window, build)
           r == AtomicAddAt(o.metric.inner, time, value, 1)
       IN /\ window' = IF o.tag = "Ok" THEN [o.metric EXCEPT !.inner = r.window]
                                       ELSE o.metric
          /\ reader' = [op |-> "metric_increment", time |-> time, value |-> value,
                        res |-> IF o.tag = "Ok" THEN r.res ELSE o.tag]
    /\ history' = [history EXCEPT !.writes = @ + 1]
    /\ UNCHANGED callers
    /\ UNCHANGED storeVars

\* metriken::Histogram::as_slice: get_or_init().as_slice()
MetricAsSlice ==
    /\ window.kind = "metric"
    /\ \E build \in Builds :
       LET o == GetOrInit(window, build)
       IN /\ window' = o.metric
          /\ reader' = [op |-> "metric_as_slice",
                        res |-> IF o.tag = "Ok" THEN o.metric.inner.live.buckets
                                                ELSE o.tag]
    /\ UNCHANGED <<callers, history>>
    /\ UNCHANGED storeVars

\* metriken::Histogram::snapshot_between
MetricSnapshotBetween ==
    /\ window.kind = "metric"
    /\ reader' = [op |-> "metric_snapshot_between", res |-> InnerGet(window)]
    /\ UNCHANGED <<window, callers, history>>
    /\ UNCHANGED storeVars

\* metriken::Histogram::percentile
MetricPercentile ==
    /\ window.kind = "metric"
    /\ reader' = [op |-> "metric_percentile", res |-> InnerGet(window)]
    /\ UNCHANGED <<window, callers, history>>
    /\ UNCHANGED storeVars

\* a metriken histogram: writes, as_slice and the two reads
NextMetric ==
    \/ \E l \in WindowLayouts, r \in Resolutions, n \in SliceCounts :
          MetricHistogramNew(l[1], l[2], l[3], r, n)
    \/ \E time \in MetricInstants, value \in ValuesAroundRange : MetricIncrement(time, value)
    \/ MetricAsSlice
    \/ MetricSnapshotBetween
    \/ MetricPercentile

SpecMetric == Init /\ [][NextMetric]_vars

\* the exclusive window: timestamped increments, then a query between two
\* tick boundaries
NextWindow ==
    \/ \E l \in WindowLayouts, r \in Resolutions, n \in SliceCounts :
          WindowNew("standard", l[1], l[2], l[3], r, n)
    \/ /\ window.kind # "none"
       /\ \E instant \in AddInstants(window), value \in WindowValues :
             IncrementAt(instant, value)
    \/ /\ window.kind # "none"
       /\ \E i \in QueryIntervals(window) : QueryBetween(i[1], i[2], <<50, 100>>)

SpecWindow == Init /\ [][NextWindow]_vars

\* the exclusive window: timestamped increments, then a query over the last
\* ticks or over the whole window
NextWindowLast ==
    \/ \E l \in WindowLayouts, r \in Resolutions, n \in SliceCounts :
          WindowNew("standard", l[1], l[2], l[3], r, n)
    \/ /\ window.kind # "none"
       /\ \E instant \in AddInstants(window), value \in WindowValues :
             IncrementAt(instant, value)
    \/ /\ window.kind # "none"
       /\ \E d \in LastDurations(window) : QueryLast(d, <<50, 100>>)
    \/ QueryAll(<<50, 100>>)

SpecWindowLast == Init /\ [][NextWindowLast]_vars

\* the exclusive window handed values in and out of the range of its layout
NextWindowRejecting ==
    \/ \E l \in WindowLayouts, r \in Resolutions, n \in SliceCounts :
          WindowNew("standard", l[1], l[2], l[3], r, n)
    \/ /\ window.kind # "none"
       /\ \E instant \in AddInstants(window), value \in ValuesAroundRange :
             IncrementAt(instant, value)

SpecWindowRejecting == Init /\ [][NextWindowRejecting]_vars

(***************************************************************************)
(* The shared sliding window: add_at step by step, queries in two steps     *)
(***************************************************************************)
\* add_at(instant, value, 1) is called by c: snapshot(instant) loads tick_at
CallAddAt(c, instant, value) ==
    /\ window.kind = "atomic"
    /\ callers[c].pc = "idle"
    /\ reader.op \notin WindowQueryOps
    /\ history.adds < MaxCalls
    /\ callers' = [callers EXCEPT ![c] =
                     AfterLoad([pc |-> "load", instant |-> instant, value |-> value,
                                tick_at |-> 0, slot |-> 0, i |-> 0, advances |-> 0,
                                lost |-> 0, first |-> window.tick_at],
                               window.tick_at)]
    /\ history' = [history EXCEPT !.adds = @ + 1]
    /\ UNCHANGED <<window, reader>>
    /\ UNCHANGED storeVars

\* snapshot: back at the head of the loop, tick_at is loaded again
SnapshotLoad(c) ==
    /\ callers[c].pc = "load"
    /\ reader.op \notin WindowQueryOps
    /\ callers' = [callers EXCEPT ![c] = AfterLoad(@, window.tick_at)]
    /\ UNCHANGED <<window, reader, history>>
    /\ UNCHANGED storeVars

\* snapshot: the compare-and-swap of tick_at; the loser loops, the winner
\* computes the slot it will copy into
SnapshotCas(c) ==
    /\ callers[c].pc = "cas"
    /\ reader.op \notin WindowQueryOps
    /\ LET call == callers[c]
           r == compare_exchange(window.tick_at, call.tick_at,
                                 call.tick_at + window.common.resolution)
       IN IF r.ok
            THEN /\ window' = [window EXCEPT !.tick_at = r.value]
                 /\ callers' = [callers EXCEPT ![c] =
                                  [call EXCEPT !.pc = "copy",
                                               !.slot = RotationSlot(window, call.tick_at),
                                               !.i = 0,
                                               !.advances = @ + 1]]
                 /\ history' = [history EXCEPT !.wins = @ \cup {<<call.tick_at, c>>}]
            ELSE /\ callers' = [callers EXCEPT ![c] =
                                  [call EXCEPT !.pc = "load", !.lost = @ + 1]]
                 /\ UNCHANGED <<window, history>>
    /\ UNCHANGED reader
    /\ UNCHANGED storeVars

\* snapshot: one iteration of the copy loop, d.store(s.load()); after the last
\* counter the call is back at the head of the loop
SnapshotCopy(c) ==
    /\ callers[c].pc = "copy"
    /\ reader.op \notin WindowQueryOps
    /\ LET call == callers[c]
           last_one == call.i + 1 = Len(window.live.buckets)
       IN /\ window' = [window EXCEPT !.snapshots[call.slot + 1].buckets[call.i + 1] =
                                         window.live.buckets[call.i + 1]]
          /\ callers' = [callers EXCEPT ![c] =
                           IF last_one THEN [call EXCEPT !.pc = "load", !.i = 0]
                                       ELSE [call EXCEPT !.i = @ + 1]]
          /\ history' = IF last_one THEN [history EXCEPT !.copies = @ + 1] ELSE history
    /\ UNCHANGED reader
    /\ UNCHANGED storeVars

\* add_at: snapshot has returned, self.live.add(value, count)
LiveAdd(c) ==
    /\ callers[c].pc = "add"
    /\ reader.op \notin WindowQueryOps
    /\ window' = [window EXCEPT !.live = AtomicAdd(@, callers[c].value, 1).hist]
    /\ callers' = [callers EXCEPT ![c] = Idle]
    /\ UNCHANGED <<reader, history>>
    /\ UNCHANGED storeVars

\* sliding_window::atomic::Histogram::percentiles_last: tick_at is loaded and
\* the two ring slots are chosen
ReadLast(duration) ==
    /\ window.kind = "atomic"
    /\ reader.op \notin (WindowQueryOps \cup {"reading"})
    /\ LET end == window.tick_at - window.common.resolution
           start == end - duration
       IN reader' = [op |-> "reading", query |-> "percentiles_last",
                     slots |-> range(window, start, end)]
    /\ UNCHANGED <<window, callers, history>>
    /\ UNCHANGED storeVars

\* sliding_window::atomic::Histogram::percentiles: percentiles_last over
\* resolution * snapshots.len()
ReadAll ==
    /\ window.kind = "atomic"
    /\ reader.op \notin (WindowQueryOps \cup {"reading"})
    /\ LET end == window.tick_at - window.common.resolution
           start == end - window.common.resolution * Len(window.snapshots)
       IN reader' = [op |-> "reading", query |-> "percentiles",
                     slots |-> range(window, start, end)]
    /\ UNCHANGED <<window, callers, history>>
    /\ UNCHANGED storeVars

\* sliding_window::atomic::Histogram::percentiles_between: the two ring slots
\* are chosen
ReadBetween(start, end) ==
    /\ window.kind = "atomic"
    /\ reader.op \notin (WindowQueryOps \cup {"reading"})
    /\ reader' = [op |-> "reading", query |-> "percentiles_between",
                  slots |-> range(window, start, end)]
    /\ UNCHANGED <<window, callers, history>>
    /\ UNCHANGED storeVars

\* the query reads the counters of its two slots and walks their difference
ReadFinish(percentiles) ==
    /\ reader.op = "reading"
    /\ reader' = [op |-> reader.query,
                  slots |-> reader.slots,
                  store |-> DeltaStore(window, reader.slots),
                  res |-> Percentiles(DeltaStore(window, reader.slots), percentiles)]
    /\ UNCHANGED <<window, callers, history>>
    /\ UNCHANGED storeVars

\* the shared window under two callers and a reader
NextWindowAtomic ==
    \/ \E l \in WindowLayouts, r \in Resolutions, n \in SliceCounts :
          WindowNew("atomic", l[1], l[2], l[3], r, n)
    \/ /\ window.kind # "none"
       /\ \E c \in Callers, instant \in AddInstants(window), value \in CallerValues :
             CallAddAt(c, instant, value)
    \/ \E c \in Callers : SnapshotLoad(c)
    \/ \E c \in Callers : SnapshotCas(c)
    \/ \E c \in Callers : SnapshotCopy(c)
    \/ \E c \in Callers : LiveAdd(c)
    \/ /\ window.kind # "none"
       /\ \E d \in LastDurations(window) : ReadLast(d)
    \/ ReadAll
    \/ /\ window.kind # "none"
       /\ \E i \in ReadIntervals(window) : ReadBetween(i[1], i[2])
    \/ ReadFinish(<<50, 100>>)

SpecWindowAtomic == Init /\ [][NextWindowAtomic]_vars

\* one step of the call that c is in
CallerStep(c) ==
    SnapshotLoad(c) \/ SnapshotCas(c) \/ SnapshotCopy(c) \/ LiveAdd(c)

\* the shared window under its callers alone
NextCallers ==
    \/ \E l \in WindowLayouts, r \in Resolutions, n \in SliceCounts :
          WindowNew("atomic", l[1], l[2], l[3], r, n)
    \/ /\ window.kind # "none"
       /\ \E c \in Callers, instant \in AddInstants(window), value \in CallerValues :
             CallAddAt(c, instant, value)
    \/ \E c \in Callers : CallerStep(c)

\* every caller is a thread that the scheduler lets run again and again
SpecCallersFair ==
    Init /\ [][NextCallers]_vars /\ \A c \in Callers : WF_vars(CallerStep(c))

\* a window of either variant
NextWindows == NextWindow \/ NextWindowAtomic

SpecWindows == Init /\ [][NextWindows]_vars

(***************************************************************************)
(* Claims about the bucket layout (SpecLayout)                             *)
(***************************************************************************)
\* C1: for every valid layout and every value v below 2^n, value_to_index(v)
\* succeeds and the bucket at that index contains v: lower <= v <= upper.
C1_BucketContainsValue ==
    (last.op = "value_to_bucket" /\ last.value < 2^(hist.config.n)) =>
        /\ last.res = "Ok"
        /\ last.bucket.lower <= last.value
        /\ last.value <= last.bucket.upper

\* a value of the logarithmic region was looked up and fell in a bucket wider
\* than one value, above the bucket's lower bound
C1_Witness ==
    /\ last.op = "value_to_bucket"
    /\ last.res = "Ok"
    /\ last.value >= threshold(hist.config)
    /\ last.bucket.lower < last.value
    /\ last.value < last.bucket.upper

\* C2: the buckets tile [0, 2^n - 1]: bucket 0 starts at 0, each bucket has
\* lower <= upper, the bucket after index i starts at upper(i) + 1, and the
\* last bucket ends at 2^n - 1.
C2_BucketsTile ==
    last.op = "get_bucket" =>
        /\ last.res.lower <= last.res.upper
        /\ last.index = 0 => last.res.lower = 0
        /\ last.index + 1 < total_bins(hist.config) =>
              last.res.upper + 1 = get_bucket(hist, last.index + 1).lower
        /\ last.index = total_bins(hist.config) - 1 =>
              last.res.upper = 2^(hist.config.n) - 1

\* a bucket wider than one value with a successor was read
C2_Witness ==
    /\ last.op = "get_bucket"
    /\ last.index + 1 < total_bins(hist.config)
    /\ last.res.lower < last.res.upper

\* C3: value_to_index is the hybrid mapping: below 2^(a+b) the index is
\* v >> a and the bucket is 2^a wide; from 2^(a+b) on, with e the highest set
\* bit of v, the bucket is 2^(e-b) wide and its lower bound is 2^e plus a
\* multiple of 2^(e-b), inside [2^e, 2^(e+1)).
C3_HybridMapping ==
    (last.op = "value_to_bucket" /\ last.res = "Ok") =>
        LET c == hist.config
            v == last.value
            width == last.bucket.upper - last.bucket.lower + 1
        IN /\ v < 2^(c.a + c.b) =>
                 /\ last.index = v \div 2^(c.a)
                 /\ width = 2^(c.a)
           /\ v >= 2^(c.a + c.b) =>
                 \E e \in (c.a + c.b)..(c.n - 1) :
                    /\ 2^e <= v /\ v < 2^(e + 1)
                    /\ width = 2^(e - c.b)
                    /\ last.bucket.lower >= 2^e
                    /\ (last.bucket.lower - 2^e) % 2^(e - c.b) = 0
                    /\ last.bucket.upper < 2^(e + 1)
                    /\ last.index >= linear_bins(c)

\* a value two octaves above the linear region was looked up in a layout with
\* subdivided octaves
C3_Witness ==
    /\ last.op = "value_to_bucket"
    /\ last.res = "Ok"
    /\ hist.config.b >= 1
    /\ last.value >= 2 * threshold(hist.config)
    /\ last.bucket.lower > 2 * threshold(hist.config)

(***************************************************************************)
(* Claims about construction (SpecBuild)                                   *)
(***************************************************************************)
ValidLayout(a, b, n) == n <= MaxPower /\ a + b < n

\* C4: for parameters with a + b <= 255, construction succeeds exactly when
\* n <= 64 and a + b < n, and otherwise returns an error and creates no
\* histogram; the builder reports MaxPowerTooHigh when n > 64 and
\* MaxPowerTooLow when n <= 64 and a + b >= n, and build() of a builder that
\* was accepted succeeds.
C4_ConstructionIffValid ==
    (last.op \in {"new", "Builder::new", "Builder::build"} /\ last.a + last.b <= U8Max) =>
        /\ (last.res = "Ok") <=> ValidLayout(last.a, last.b, last.n)
        /\ (last.res # "Ok" \/ last.op = "Builder::new") => (hist = NoHist /\ kind = "none")
        /\ (last.res = "Ok" /\ last.op # "Builder::new") =>
              /\ kind = last.kind
              /\ hist = from_config([a |-> last.a, b |-> last.b, n |-> last.n])
        /\ last.op = "Builder::new" =>
              /\ last.n > MaxPower => last.res = "MaxPowerTooHigh"
              /\ (last.n <= MaxPower /\ last.a + last.b >= last.n) =>
                    last.res = "MaxPowerTooLow"
              /\ (last.res = "Ok") <=> (builder # NoHist)

\* the builder rejected a + b = n with n within the limit
C4_Witness ==
    /\ last.op = "Builder::new"
    /\ last.res = "MaxPowerTooLow"
    /\ last.n = MaxPower
    /\ last.a + last.b = last.n

(***************************************************************************)
(* Claims about recording (Spec, SpecAtomic)                               *)
(***************************************************************************)
AddOps == {"add", "increment"}

\* C5: in a layout with n < 64 a call add(value, count) or increment(value)
\* with value >= 2^n returns ValueOutOfRange and leaves every counter of the
\* store as it was; in a layout with n = 64 no call is rejected.
C5_OutOfRangeLeavesStore ==
    [][last'.op \in AddOps =>
          /\ (hist.config.n < WordBits /\ last'.value >= 2^(hist.config.n)) =>
                (last'.res = "ValueOutOfRange" /\ hist' = hist)
          /\ hist.config.n = WordBits => last'.res = "Ok"]_vars

\* a call was rejected by a store that already holds counts
C5_Witness ==
    /\ last.op \in AddOps
    /\ last.res = "ValueOutOfRange"
    /\ kind = "atomic"
    /\ total_count(hist) > 0

RECURSIVE SumOver(_, _)
SumOver(S, f) ==
    IF S = {} THEN 0
    ELSE LET x == CHOOSE y \in S : TRUE IN f[x] + SumOver(S \ {x}, f)

\* C7: once NThreads threads have each performed MIncr successful increments
\* of the shared store, in any interleaving, total_count() is NThreads * MIncr
\* and every counter is the number of increments whose value maps to it.
C7_NoLostUpdates ==
    last.op = "join" =>
        /\ last.total = NThreads * MIncr
        /\ \A i \in 0..(Len(hist.buckets) - 1) :
              get_count(hist, i) =
                 SumOver({v \in ThreadValues :
                             LET r == value_to_index(hist.config, v)
                             IN r.ok /\ r.index = i},
                         written)

\* the threads have joined after writing to two buckets, one of them more
\* than once
C7_Witness ==
    /\ last.op = "join"
    /\ \E i, j \in 0..(Len(hist.buckets) - 1) :
          i # j /\ get_count(hist, i) >= 2 /\ get_count(hist, j) >= 1

(***************************************************************************)
(* Claims about the percentile walk (SpecQuery)                            *)
(***************************************************************************)
IsEmptyErr(r) == r.tag = "Err" /\ r.err = "Empty"

\* C8 as stated: percentiles(ps) returns Empty exactly when total_count() is 0;
\* a freshly constructed store returns Empty and a store with at least one
\* recorded value never does.
C8_EmptyIffNothingRecorded ==
    last.op = "percentiles" =>
        /\ IsEmptyErr(last.res) <=> total_count(hist) = 0
        /\ recorded = 0 => IsEmptyErr(last.res)
        /\ recorded > 0 => ~IsEmptyErr(last.res)

\* C8 as amended: percentiles(ps) returns Empty exactly when total_count() is 0;
\* a freshly constructed store returns Empty, and a store with at least one
\* recorded value whose counters have not wrapped around to a total of zero
\* never does.
C8_EmptyIffTotalZero ==
    last.op = "percentiles" =>
        /\ IsEmptyErr(last.res) <=> total_count(hist) = 0
        /\ recorded = 0 => IsEmptyErr(last.res)
        /\ (recorded > 0 /\ total_count(hist) # 0) => ~IsEmptyErr(last.res)

\* percentiles answered a store that holds a count
C8_Witness ==
    /\ last.op = "percentiles"
    /\ recorded > 0
    /\ total_count(hist) > 0
    /\ last.res.tag = "Ok"
    /\ Len(last.ps) = 2

\* the sum of the counters 0..index
CumulativeCount(h, index) == SumTo(h.buckets, index + 1)

\* ceil(p / 100 * total), by its definition
CeilOfPercent(p, total) ==
    CHOOSE k \in 0..total : 100 * k >= p * total /\ 100 * (k - 1) < p * total

\* the smallest index whose cumulative count reaches ceil(p / 100 * total)
FirstIndexReaching(h, p) ==
    CHOOSE i \in 0..(Len(h.buckets) - 1) :
        /\ CumulativeCount(h, i) >= CeilOfPercent(p, total_count(h))
        /\ \A j \in 0..(i - 1) :
              CumulativeCount(h, j) < CeilOfPercent(p, total_count(h))

\* C9: on a non-empty store, percentile(p) returns the bucket (count, lower,
\* upper) at the smallest index i whose cumulative count over 0..i is at least
\* ceil(p / 100 * total_count()).
C9_PercentileIsFirstReaching ==
    (last.op = "percentile" /\ total_count(hist) > 0) =>
        /\ last.res.tag = "Ok"
        /\ last.res.value = get_bucket(hist, FirstIndexReaching(hist, last.p))

\* C10: on a non-empty store a batched percentiles([p1, ..., pk]) returns, for
\* every requested percentile, the bucket that percentile(pi) returns, also
\* when several of them are equal or resolve to the same bucket.
C10_BatchEqualsSingle ==
    (last.op = "percentiles" /\ total_count(hist) > 0) =>
        /\ last.res.tag = "Ok"
        /\ Len(last.res.value) = Len(last.ps)
        /\ \A k \in 1..Len(last.ps) :
              /\ last.res.value[k].percentile = SortAsc(last.ps)[k]
              /\ [tag |-> "Ok", value |-> last.res.value[k].bucket] =
                    Percentile(hist, SortAsc(last.ps)[k])

\* the number of entries of a sequence equal to x
Occurrences(seq, x) == Cardinality({k \in 1..Len(seq) : seq[k] = x})

\* C11: a successful percentiles(ps) returns exactly one (percentile, bucket)
\* entry per requested percentile (every requested percentile as often as it
\* was requested), in ascending order of percentile, whatever the order of the
\* request.
C11_OneEntryEachAscending ==
    (last.op = "percentiles" /\ last.res.tag = "Ok") =>
        /\ Len(last.res.value) = Len(last.ps)
        /\ \A p \in Percents :
              Occurrences([k \in 1..Len(last.res.value) |-> last.res.value[k].percentile], p)
                 = Occurrences(last.ps, p)
        /\ \A k \in 1..(Len(last.res.value) - 1) :
              last.res.value[k].percentile <= last.res.value[k + 1].percentile

\* three percentiles, requested out of order and one of them twice, were
\* answered
C11_Witness ==
    /\ last.op = "percentiles"
    /\ last.res.tag = "Ok"
    /\ Len(last.ps) = 3
    /\ last.ps[1] > last.ps[2]
    /\ Len(last.res.value) = 3

(***************************************************************************)
(* Claims about the extremes (SpecAtomicQuery)                             *)
(***************************************************************************)
\* the values incremented so far, the smallest and the largest of them
RecordedValues == {v \in ThreadValues : written[v] > 0}
SmallestRecorded == CHOOSE v \in RecordedValues : \A w \in RecordedValues : v <= w
LargestRecorded == CHOOSE v \in RecordedValues : \A w \in RecordedValues : w <= v

\* C12: after any non-empty sequence of successful increments, percentile(0.0)
\* returns the bucket containing the smallest recorded value and
\* percentile(100.0) the bucket containing the largest recorded value, each
\* with that bucket's current, non-zero count.
C12_ExtremesAreMinAndMax ==
    (last.op = "percentile" /\ RecordedValues # {}) =>
        /\ last.p = 0 =>
              /\ last.res.tag = "Ok"
              /\ last.res.value =
                    get_bucket(hist, value_to_index(hist.config, SmallestRecorded).index)
              /\ last.res.value.count > 0
        /\ last.p = 100 =>
              /\ last.res.tag = "Ok"
              /\ last.res.value =
                    get_bucket(hist, value_to_index(hist.config, LargestRecorded).index)
              /\ last.res.value.count > 0

(***************************************************************************)
(* Claims about the sparse form (SpecCompact)                              *)
(***************************************************************************)
\* C13: converting an exclusive or a shared store to the sparse form and
\* reading get_count(i) from the sparse form gives the store's count for every
\* index i in 0..total_bins, 0 for the zero-count indices included, and the
\* sparse total_count equals the store's total_count.
C13_SparseRoundTrip ==
    last.op = "compact" =>
        /\ \A i \in 0..(total_bins(hist.config) - 1) :
              CompactGetCount(last.res, i) = get_count(hist, i)
        /\ CompactTotalCount(last.res) = total_count(hist)

\* a store with two non-zero counters and a zero counter between them was
\* converted
C13_Witness ==
    /\ last.op = "compact"
    /\ \E i, j, k \in 0..(Len(hist.buckets) - 1) :
          /\ i < j /\ j < k
          /\ get_count(hist, i) > 0 /\ get_count(hist, j) = 0 /\ get_count(hist, k) > 0
          /\ CompactGetCount(last.res, k) > 0

\* C14: every sparse histogram produced by conversion has a strictly
\* increasing index vector, index and count vectors of equal length, no stored
\* count equal to zero, every stored index below total_bins, and the (a, b, n)
\* of the source store.
C14_SparseWellFormed ==
    last.op = "compact" =>
        LET s == last.res
        IN /\ Len(s.index) = Len(s.count)
           /\ \A k \in 1..(Len(s.index) - 1) : s.index[k] < s.index[k + 1]
           /\ \A k \in 1..Len(s.count) : s.count[k] # 0
           /\ \A k \in 1..Len(s.index) : s.index[k] < total_bins(hist.config)
           /\ <<s.a, s.b, s.n>> = <<hist.config.a, hist.config.b, hist.config.n>>

\* a shared store with counts in two buckets, but not in its first, was
\* converted
C14_Witness ==
    /\ last.op = "compact"
    /\ kind = "atomic"
    /\ Len(last.res.index) = 2
    /\ last.res.index[1] > 0
    /\ get_count(hist, 0) = 0

(***************************************************************************)
(* Claims about the sliding window (SpecWindow, SpecRange)                 *)
(***************************************************************************)
\* the increments of bucket i (1-based) recorded with a timestamp in
\* [start, end), both tick boundaries
RECURSIVE IncrementsBetween(_, _, _, _)
IncrementsBetween(k, start, end, i) ==
    IF k \notin Ticks THEN 0
    ELSE (IF /\ start <= window.common.tick_origin + k * window.common.resolution
             /\ window.common.tick_origin + k * window.common.resolution < end
            THEN history.at[k][i] ELSE 0)
         + IncrementsBetween(k + 1, start, end, i)

\* C15: when the increments arrive with non-decreasing timestamps and every
\* tick boundary is rotated, then for tick boundaries s <= e inside the
\* retained span (e no later than tick_at - resolution, s no earlier than the
\* span before that and than the tick origin), every bucket of the store that
\* percentiles_between(s, e, ..) computes holds the number of increments of
\* that bucket recorded with a timestamp in [s, e).
C15_DeltaIsIncrementsBetween ==
    (/\ reader.op = "percentiles_between"
     /\ history.monotone /\ history.rotated
     /\ reader.start <= reader.end
     /\ reader.end <= window.tick_at - window.common.resolution
     /\ reader.start >= window.tick_at - window.common.resolution - window.common.span
     /\ reader.start >= window.common.tick_origin) =>
        \A i \in 1..Len(reader.store.buckets) :
           reader.store.buckets[i] = IncrementsBetween(0, reader.start, reader.end, i)

\* the tick an instant falls in, counted from the tick origin, as a ring slot
StartIndex(w, start) ==
    IF start <= w.common.tick_origin THEN 0
    ELSE ((start - w.common.tick_origin) \div w.common.resolution) % w.common.num_slices

\* C16: on a window with tick origin T, resolution r and `slices` requested
\* slices, range(T, T + k * r) = (0, k) for every k in 0..slices; range(T, end)
\* is clamped to (0, slices) for every end >= T + slices * r; and for
\* end < start the result is (start_index, start_index).
C16_RangeIndexing ==
    reader.op = "range" =>
        LET T == window.common.tick_origin
            r == window.common.resolution
            slices == window.common.num_slices - 1
        IN /\ \A k \in 0..slices :
                 (reader.start = T /\ reader.end = T + k * r) => reader.res = <<0, k>>
           /\ (reader.start = T /\ reader.end >= T + slices * r) =>
                 reader.res = <<0, slices>>
           /\ reader.end < reader.start =>
                 reader.res = <<StartIndex(window, reader.start),
                                StartIndex(window, reader.start)>>

\* a range from the origin that is longer than the span was clamped
C16_Witness ==
    /\ reader.op = "range"
    /\ window.common.num_slices = 3
    /\ reader.start = window.common.tick_origin
    /\ reader.end > window.common.tick_origin + window.common.span + window.common.resolution
    /\ reader.res = <<0, 2>>

(***************************************************************************)
(* Claims about rotation (SpecWindows, SpecWindowAtomic)                   *)
(***************************************************************************)
\* C17: in the exclusive and in the shared window, one add_at call refreshes
\* at most one ring slot and moves tick_at forward by at most one resolution,
\* also when its timestamp is several ticks past tick_at; the other ring
\* slots keep their contents.
C17_OneRotationPerCall ==
    [][/\ (window.kind = "standard" /\ history'.adds # history.adds) =>
             /\ window'.tick_at \in {window.tick_at,
                                     window.tick_at + window.common.resolution}
             /\ Cardinality({s \in 1..Len(window.snapshots) :
                                window'.snapshots[s] # window.snapshots[s]}) <= 1
       /\ window'.kind = "atomic" =>
             \A c \in Callers : callers'[c].pc # "idle" => callers'[c].advances <= 1]_vars

\* C18: in the shared window under concurrent add_at callers, for each value
\* T that tick_at has left exactly one caller's compare-and-swap from T
\* succeeded (none for the current value), only the caller that won T copies
\* live into a ring slot for T, and the slot copies, finished or under way,
\* are as many as the advances of tick_at.
C18_OneWinnerPerTick ==
    window.kind = "atomic" =>
        LET first == window.common.tick_origin + window.common.resolution
            advances == (window.tick_at - first) \div window.common.resolution
            copying == {c \in Callers : callers[c].pc = "copy"}
        IN /\ \A k \in 0..(advances - 1) :
                 Cardinality({c \in Callers :
                     <<first + k * window.common.resolution, c>> \in history.wins}) = 1
           /\ \A w \in history.wins : w[1] < window.tick_at
           /\ \A c \in copying : <<callers[c].tick_at, c>> \in history.wins
           /\ \A c, d \in copying : callers[c].tick_at = callers[d].tick_at => c = d
           /\ history.copies + Cardinality(copying) = advances
           /\ Cardinality(history.wins) = advances

\* a caller lost the compare-and-swap from a tick boundary that the other
\* caller won, and is back at the head of the loop
C18_Witness ==
    /\ window.kind = "atomic"
    /\ \E c, d \in Callers :
          /\ c # d
          /\ callers[c].pc = "load"
          /\ callers[c].advances = 0
          /\ <<callers[c].tick_at, d>> \in history.wins

\* C19: in the shared window, a query (percentiles, percentiles_last,
\* percentiles_between) that runs while a rotation is copying never has, as
\* its start or its end snapshot, the ring slot the rotation is copying live
\* into.
C19_QueryAvoidsSlotBeingCopied ==
    reader.op = "reading" =>
        \A c \in Callers :
           callers[c].pc = "copy" =>
              /\ callers[c].slot # reader.slots[1]
              /\ callers[c].slot # reader.slots[2]

\* C20: in every reachable state of a window of either variant tick_at is
\* tick_origin + k * resolution for an integer k >= 1, and every change of
\* tick_at adds exactly one resolution (tick_at never decreases).
C20_TickAtOnBoundaries ==
    [][/\ window'.kind # "none" =>
             /\ window'.tick_at >= window'.common.tick_origin + window'.common.resolution
             /\ (window'.tick_at - window'.common.tick_origin)
                   % window'.common.resolution = 0
       /\ window.kind # "none" =>
             /\ window'.common = window.common
             /\ \/ window'.tick_at = window.tick_at
                \/ window'.tick_at = window.tick_at + window.common.resolution]_vars

\* the two callers of a shared window have each advanced tick_at, which is
\* four ticks or more past the origin
C20_Witness ==
    /\ window.kind = "atomic"
    /\ window.tick_at >= window.common.tick_origin + 4 * window.common.resolution
    /\ \A c \in Callers : \E w \in history.wins : w[2] = c

(***************************************************************************)
(* Claims about the engine state (SpecWindows)                             *)
(***************************************************************************)
\* C21: in a window of either variant no step (rotation, query, increment)
\* lowers a live counter; a counter of a ring slot changes only during a
\* rotation and only to the value the live counter has before the step (in
\* the exclusive window the whole slot becomes the live store of before the
\* call), so that an increment reaches a ring slot only through a later copy.
C21_LiveIsCumulative ==
    [][window.kind # "none" =>
          /\ \A i \in 1..Len(window.live.buckets) :
                window'.live.buckets[i] >= window.live.buckets[i]
          /\ \A s \in 1..Len(window.snapshots) :
                /\ \A i \in 1..Len(window.live.buckets) :
                      window'.snapshots[s].buckets[i] # window.snapshots[s].buckets[i] =>
                         /\ window'.snapshots[s].buckets[i] = window.live.buckets[i]
                         /\ IF window.kind = "standard"
                              THEN window'.tick_at # window.tick_at
                              ELSE \E c \in Callers :
                                      /\ callers[c].pc = "copy"
                                      /\ callers[c].slot + 1 = s
                                      /\ callers[c].i + 1 = i
                /\ (window.kind = "standard" /\ window'.snapshots[s] # window.snapshots[s]) =>
                       window'.snapshots[s].buckets = window.live.buckets
          /\ (window.kind = "atomic" /\ window'.live # window.live) =>
                 window'.snapshots = window.snapshots]_vars

\* a ring slot holds a copy of live taken by a rotation, and live has been
\* incremented since
C21_Witness ==
    /\ window.kind # "none"
    /\ history.copies >= 1
    /\ \E s \in 1..Len(window.snapshots) :
          /\ window.snapshots[s].buckets[2] >= 1
          /\ window.live.buckets[2] > window.snapshots[s].buckets[2]

(***************************************************************************)
(* Claims about the queries of the window (SpecWindowLast)                 *)
(***************************************************************************)
\* C22: percentiles(ps) of a sliding window returns what
\* percentiles_last(span, ps) returns on the same window, span being
\* resolution * slices.
C22_PercentilesIsLastSpan ==
    (window.kind = "standard" /\ reader.op = "percentiles") =>
        reader.res = PercentilesLast(window, window.common.span, reader.percentiles)

(***************************************************************************)
(* Claims about rejected increments (SpecWindowRejecting)                  *)
(***************************************************************************)
\* C23: an add_at / increment_at call on a sliding window that returns
\* ValueOutOfRange leaves tick_at, every ring slot and every live counter as
\* they were before the call.
C23_RejectedLeavesWindow ==
    [][(window.kind = "standard" /\ history'.adds # history.adds
                                 /\ reader'.res = "ValueOutOfRange") =>
          window' = window]_vars

(***************************************************************************)
(* Claims about construction and anchoring (SpecWindowBuild)               *)
(***************************************************************************)
\* C24: a call new() of a sliding window with a resolution below one
\* microsecond, with a resolution whose nanoseconds do not fit in u64, or
\* with an invalid (a, b, n), in any combination, returns an Err value: it
\* does not panic and it creates no histogram.
C24_InvalidConstructionIsErr ==
    (reader.op = "new" /\ \/ reader.resolution < MinResolution
                          \/ reader.resolution > NanosMax
                          \/ ~ConfigNew(reader.a, reader.b, reader.n).ok) =>
        /\ reader.res \notin {"Ok", "Panic"}
        /\ window = NoWindow

\* C25: in every window that new() returned, span is the product
\* resolution * slices of the arguments, the ring holds slices + 1 snapshots,
\* and live and every snapshot hold total_bins counters; straight after
\* construction these counters are all zero.
C25_SpanAndSizes ==
    (reader.op = "new" /\ reader.res = "Ok") =>
        /\ window.common.span = reader.resolution * reader.slices
        /\ window.common.resolution = reader.resolution
        /\ Len(window.snapshots) = reader.slices + 1
        /\ \A h \in {window.live} \cup {window.snapshots[s] : s \in 1..Len(window.snapshots)} :
               /\ Len(h.buckets) = total_bins(h.config)
               /\ \A i \in 1..Len(h.buckets) : h.buckets[i] = 0

\* the difference started - tick_origin in the arithmetic of u64 nanoseconds
AnchorOffset(common) ==
    (common.started + 2^NanosBits - common.tick_origin) % 2^NanosBits

TicksUpTo(w, first, instant) ==
    IF instant < first THEN 0 ELSE (instant - first) \div w.common.resolution + 1

\* C27: every call add_at on the shared window returns, whatever the other
\* callers do; each compare-and-swap a call has lost was lost to another
\* caller that advanced tick_at during the call, and the call goes back to
\* the head of the loop at most once for each tick boundary between the
\* tick_at it found and its timestamp plus once for each lost
\* compare-and-swap.
C27_EveryCallReturns ==
    /\ \A c \in Callers : (callers[c].pc # "idle") ~> (callers[c].pc = "idle")
    /\ [](\A c \in Callers :
            callers[c].pc # "idle" =>
               /\ callers[c].advances <= TicksUpTo(window, callers[c].first, callers[c].instant)
               /\ callers[c].lost <=
                     Cardinality({w \in history.wins :
                                     w[2] # c /\ w[1] >= callers[c].first})
               /\ callers[c].advances + callers[c].lost
                     <= TicksUpTo(window, callers[c].first, callers[c].instant)
                          + callers[c].lost)

\* a call has lost one compare-and-swap, has won a later one and copied
\* live, and is back at the head of the loop
C27_Witness ==
    /\ window.kind = "atomic"
    /\ \E c \in Callers :
          /\ callers[c].pc = "load"
          /\ callers[c].lost >= 1
          /\ callers[c].advances >= 1

(***************************************************************************)
(* Claims about the metriken histogram (SpecMetric)                        *)
(***************************************************************************)
\* C28: as long as no add or increment has been called on a metriken
\* histogram, percentile(..) and snapshot_between(..) return None; they
\* return Some only after such a call.
C28_NoneUntilWritten ==
    (window.kind = "metric"
        /\ reader.op \in {"metric_percentile", "metric_snapshot_between"}) =>
        (reader.res = "Some" => history.writes >= 1)

(***************************************************************************)
(* Claims about the ring (SpecWindow, SpecWindowRejecting)                 *)
(***************************************************************************)
\* C29: the rotations of a window go round the ring: the rotation that
\* leaves tick_at at tick_origin + (k + 1) * resolution writes the slot that
\* k and num_slices determine, one slot further round the ring than the
\* rotation before it, so that two rotations in a row, the first ones after
\* construction included, never write the same slot.
C29_RotationsGoRoundTheRing ==
    [][(reader.op = "increment_at" /\ reader'.op = "increment_at") =>
          \A s \in reader.slot, t \in reader'.slot :
             /\ t # s
             /\ t = (s + 1) % window.common.num_slices]_vars

\* the window w seen as a window of the other variant: the same common
\* part, tick_at, live counters and ring slots
AsVariant(w, k) == [w EXCEPT !.kind = k]

\* C30: a call add_at(t, v, 1) made on an exclusive window and on a shared
\* window used by a single thread, both in the same state before the call
\* (the same tick_at, ring slots and live counters), returns the same result
\* and leaves both in the same state, whatever the timestamp.
C30_VariantsAgree ==
    [][(window.kind = "standard" /\ reader'.op = "increment_at") =>
          AtomicAddAt(AsVariant(window, "atomic"), reader'.instant, reader'.value, 1)
             = [res |-> reader'.res, window |-> AsVariant(window', "atomic")]]_vars

\* the highest index of a bucket with a non-zero count
HighestNonZero(h) ==
    CHOOSE i \in 0..(Len(h.buckets) - 1) :
        /\ get_count(h, i) > 0
        /\ \A j \in (i + 1)..(Len(h.buckets) - 1) : get_count(h, j) = 0

\* the requested percentiles the counts of the store cannot satisfy: needed
\* is more than all the counts the walk reads
Unsatisfied(h, ps) ==
    {k \in 1..Len(ps) : Needed(SortAsc(ps)[k], total_count(h)) > total_count(h)}

C39_WalkNeverExhausts ==
    (/\ last.op = "walk"
     /\ \A i \in DOMAIN hist.buckets : hist.buckets[i] >= last.begin[i]) =>
        last.pc \notin {"fill", "filled"}

\* C32: for every a and b whose sum is more than 255, construction (new,
\* Builder::new, build) returns a build error: it never returns Ok and never
\* overflows or panics while it validates a + b >= n.
C32_WideSumIsRejected ==
    (/\ last.op \in {"new", "Builder::new", "Builder::build"}
     /\ last.a + last.b > U8Max) =>
        /\ last.res \notin {"Ok", "Panic"}
        /\ hist = NoHist
        /\ builder = NoHist

\* the ring slots percentiles_last(duration) takes its two snapshots from
LastSlots(w, duration) ==
    range(w, w.tick_at - w.common.resolution - duration,
             w.tick_at - w.common.resolution)

\* C33: in a steady-state window (every tick rotated, more than num_slices
\* rotations done), for every percentiles_last(d) with d a whole number of
\* ticks and 0 < d <= span, the end-snapshot slot was refreshed no earlier
\* than the start-snapshot slot: no counter of the end snapshot is below the
\* same counter of the start snapshot, so no delta wraps below zero.
C33_EndSlotNotOlder ==
    (/\ reader.op = "percentiles_last"
     /\ history.rotated
     /\ history.monotone
     /\ history.copies > window.common.num_slices
     /\ reader.duration % window.common.resolution = 0
     /\ 0 < reader.duration
     /\ reader.duration <= window.common.span) =>
        LET slots == LastSlots(window, reader.duration)
        IN \A i \in DOMAIN window.live.buckets :
              window.snapshots[slots[2] + 1].buckets[i]
                  >= window.snapshots[slots[1] + 1].buckets[i]

\* C34: in every reachable state of a sliding window of either variant, under
\* any interleaving of the callers of the shared one, every counter of every
\* ring slot is at most the same counter of live (no counter wraps in the
\* model: fewer increments are made than a counter holds).
C34_SlotsBelowLive ==
    window.kind \in {"standard", "atomic"} =>
        \A s \in 1..Len(window.snapshots) :
           \A i \in 1..Len(window.live.buckets) :
              window.snapshots[s].buckets[i] <= window.live.buckets[i]

\* a caller of the shared window is in the middle of its copy: the counter it
\* has not copied yet is behind live, the slot it copies into is not the only
\* one
C34_Witness ==
    /\ window.kind = "atomic"
    /\ \E c \in Callers :
          /\ callers[c].pc = "copy"
          /\ callers[c].i = 1
          /\ window.live.buckets[2] >= 1
          /\ window.snapshots[callers[c].slot + 1].buckets[2] < window.live.buckets[2]

\* C35: percentiles never reads a bucket at an index >= total_bins: on every
\* non-empty store and for every list of percentiles in [0, 100], several of
\* them satisfied at the last bucket included, the call indexes the counters
\* within 0..total_bins - 1 and so never panics.
C35_IndicesWithinBins ==
    (last.op = "percentiles" /\ total_count(hist) > 0) =>
        last.res.tag # "Panic"

\* C36: on the shared sliding window, when snapshot(instant) has returned and
\* until add_at returns, tick_at is later than the instant of the call.
C36_ReturnsPastInstant ==
    window.kind = "atomic" =>
        \A c \in Callers :
           callers[c].pc = "add" => window.tick_at > callers[c].instant

\* snapshot has returned to a call whose timestamp was at or after the first
\* boundary of the window: the window had to be advanced for it
C36_Witness ==
    /\ window.kind = "atomic"
    /\ history.copies >= 1
    /\ \E c \in Callers :
          /\ callers[c].pc = "add"
          /\ callers[c].instant >= window.common.tick_origin + window.common.resolution

\* C37: for every valid layout and every value v < 2^n, value_to_index(v) is
\* below total_bins = 2^b + (n - a - b) * 2^b; value_to_index is monotone
\* non-decreasing, and onto 0..total_bins - 1: every bucket index is the index
\* of some value.
C37_IndexWithinBinsMonotoneOnto ==
    LET c == hist.config
        Values == {v \in U64 : v < 2^(c.n)}
    IN /\ (last.op = "value_to_bucket" /\ last.value < 2^(c.n)) =>
             /\ last.res = "Ok"
             /\ last.index < total_bins(c)
             /\ total_bins(c) = 2^(c.b) + (c.n - c.a - c.b) * 2^(c.b)
             /\ total_bins(c) = Len(hist.buckets)
             /\ \A u \in Values :
                   u <= last.value => value_to_index(c, u).index <= last.index
       /\ last.op = "get_bucket" =>
             \E v \in Values : value_to_index(c, v) = [ok |-> TRUE, index |-> last.index]

\* the largest value of a layout with subdivided octaves was looked up and
\* fell in the last bucket, more than one octave above the linear region
C37_Witness ==
    /\ last.op = "value_to_bucket"
    /\ last.res = "Ok"
    /\ hist.config.b >= 1
    /\ hist.config.n - hist.config.a - hist.config.b >= 2
    /\ last.value = 2^(hist.config.n) - 1
    /\ last.index = total_bins(hist.config) - 1

\* C38: on the shared sliding window no two rotations copy live into the same
\* ring slot at overlapping times: whenever two callers are both in the copy
\* loop, their destination slots differ, during the first rotations of the
\* window too.
C38_CopiesIntoDistinctSlots ==
    window.kind = "atomic" =>
        \A c1 \in Callers : \A c2 \in Callers \ {c1} :
           (callers[c1].pc = "copy" /\ callers[c2].pc = "copy") =>
               callers[c1].slot # callers[c2].slot

====
